---- MODULE Spec2Model ----
(***************************************************************************)
(* A model of the post-call processing pipeline of the meeting bot:        *)
(*   - the calling webhook and the call-association tracker                *)
(*     (controllers/callingController: handleCallingWebhook,               *)
(*     processCallEvent, handleCall*, processMeetingAsync),                *)
(*   - the transcript availability poller (TranscriptService),             *)
(*   - the minutes generation (OpenAIService).                             *)
(* Each component has its own specification over the same variables; the   *)
(* variables of the other components stay at their initial values.         *)
(***************************************************************************)
EXTENDS Integers, Sequences, FiniteSets, TLC

VARIABLES
    activeCalls,  \* the Map callId -> {meetingId, userId}
    req,          \* the webhook requests in flight, one record per request
    handoffs,     \* the calls of processMeetingAsync, in order: <<meetingId, userId, callId>>
    runs,         \* the position of each pipeline run, parallel to handoffs
    unhandled,    \* rejections that escaped every catch
    delivered,    \* the events the platform has delivered so far
    deleted,      \* history: call ids whose association termination handling deleted
    streak,       \* history: per call id, the Terminated events processed in a row (2: two or more)
    poll,         \* the state of one waitForTranscript call
    gen,          \* the state of one generateMinutes call
    http          \* the state of one request to a manual endpoint

vars == <<activeCalls, req, handoffs, runs, unhandled, delivered, deleted, streak,
          poll, gen, http>>

(***************************************************************************)
(* Bounds of the model.                                                    *)
(***************************************************************************)
MaxReq == 2      \* webhook requests delivered in one behaviour
MaxEvents == 3   \* events delivered in one behaviour, over all batches

Req == 1..MaxReq
CallIds == {"c1", "c2"}

\* CallState (types), and "missing" for an event without resourceData.state
CallState == {"incoming", "establishing", "established", "hold",
              "transferring", "terminated"}
EventStates == CallState \cup {"missing"}

MEETING_ID_PLACEHOLDER == "MEETING_ID_PLACEHOLDER"
USER_ID_PLACEHOLDER == "USER_ID_PLACEHOLDER"

\* What the Call Info source knows about a call: the meeting and the user it
\* belongs to (the answer of callService.getCall).
CallInfoOf(c) ==
    IF c = "c1" THEN [meetingId |-> "m1", userId |-> "u1"]
                ELSE [meetingId |-> "m2", userId |-> "u2"]

(***************************************************************************)
(* Map operations on activeCalls.                                          *)
(***************************************************************************)
MapHas(m, k) == k \in DOMAIN m
MapSet(m, k, v) == [x \in DOMAIN m \cup {k} |-> IF x = k THEN v ELSE m[x]]
MapDelete(m, k) == [x \in DOMAIN m \ {k} |-> m[x]]

\* pc: where the handler is; batch: the body held an array; n, idx: the batch
\* length and the loop position (locals of the handler, gone when it returns);
\* cur: the call whose lookup is awaited; resp: the status sent (0: none yet);
\* unread: the events of the batch not yet processed when the status was sent.
\* History: threw, 1 once the processing of an event threw and 2 once a later
\* event of the batch was processed; started, the request handed off a run;
\* failed, the call whose lookup was rejected at the last step of this request.
IdleReq == [pc |-> "idle", batch |-> FALSE, n |-> 0, idx |-> 0, cur |-> "",
            resp |-> 0, unread |-> 0, threw |-> 0, started |-> FALSE,
            failed |-> ""]

TrackerInit ==
    /\ activeCalls = <<>>
    /\ req = [r \in Req |-> IdleReq]
    /\ handoffs = <<>>
    /\ runs = <<>>
    /\ unhandled = 0
    /\ delivered = 0
    /\ deleted = {}
    /\ streak = [c \in CallIds |-> 0]

(***************************************************************************)
(* handleCallingWebhook: the payload check, the loop over the batch with   *)
(* an await per event, then the 202.  The events of a batch are drawn as   *)
(* the loop reaches them: the handler never looks ahead in the batch.      *)
(***************************************************************************)
\* Requests are numbered in their order of arrival.
Arrives(r) == req[r].pc = "idle" /\ \A q \in Req : q < r => req[q].pc # "idle"

\* !notification.value || !Array.isArray(notification.value): 400
ReceiveInvalid(r) ==
    /\ Arrives(r)
    /\ req' = [req EXCEPT ![r].pc = "done", ![r].resp = 400]
    /\ UNCHANGED <<activeCalls, handoffs, runs, unhandled, deleted, streak>>
    /\ UNCHANGED <<delivered, poll, gen, http>>

ReceiveBatch(r) ==
    /\ Arrives(r)
    /\ \E n \in 0..(MaxEvents - delivered) :
         /\ req' = [req EXCEPT ![r].pc = "loop", ![r].batch = TRUE,
                              ![r].n = n, ![r].idx = 1]
         /\ delivered' = delivered + n
    /\ UNCHANGED <<activeCalls, handoffs, runs, unhandled, deleted, streak>>
    /\ UNCHANGED <<poll, gen, http>>

AtEvent(r) == req[r].pc = "loop" /\ req[r].idx <= req[r].n

\* the loop goes on to the next event
NextEvent(r) ==
    [req EXCEPT ![r].idx = @ + 1, ![r].pc = "loop", ![r].cur = "",
                ![r].threw = IF @ = 1 THEN 2 ELSE @, ![r].failed = ""]

\* the same, after the processing of the event threw and a catch logged it
NextEventAfterFailure(r) ==
    [req EXCEPT ![r].idx = @ + 1, ![r].pc = "loop", ![r].cur = "",
                ![r].threw = IF @ = 0 THEN 1 ELSE @, ![r].failed = ""]

\* res.status(202).json({status: 'accepted'}) after the loop
Respond(r) ==
    /\ req[r].pc = "loop"
    /\ req[r].idx > req[r].n
    /\ req' = [req EXCEPT ![r].pc = "done", ![r].resp = 202,
                          ![r].unread = req[r].n + 1 - req[r].idx,
                          ![r].n = 0, ![r].idx = 0, ![r].failed = ""]
    /\ UNCHANGED <<activeCalls, handoffs, runs, unhandled, deleted, streak>>
    /\ UNCHANGED <<delivered, poll, gen, http>>

(***************************************************************************)
(* processCallEvent and the handlers.                                      *)
(***************************************************************************)
\* were handleCallEstablishing to keep an initial association
ProcessEstablishingRecords(r) ==
    /\ AtEvent(r)
    /\ \E c \in CallIds :
         /\ streak' = [streak EXCEPT ![c] = 0]
         /\ activeCalls' = MapSet(activeCalls, c, [meetingId |-> "", userId |-> ""])
    /\ req' = NextEvent(r)
    /\ UNCHANGED <<handoffs, runs, unhandled, deleted>>
    /\ UNCHANGED <<delivered, poll, gen, http>>

\* case CallState.Establishing: handleCallEstablishing only logs
ProcessEstablishing(r) ==
    /\ AtEvent(r)
    /\ \E c \in CallIds :
         streak' = [streak EXCEPT ![c] = 0]
    /\ req' = NextEvent(r)
    /\ UNCHANGED <<activeCalls, handoffs, runs, unhandled, deleted>>
    /\ UNCHANGED <<delivered, poll, gen, http>>

\* default: incoming, hold, transferring, a missing or unknown state
ProcessUnhandledState(r) ==
    /\ AtEvent(r)
    /\ \E c \in CallIds, s \in EventStates \ {"establishing", "established", "terminated"} :
         streak' = [streak EXCEPT ![c] = 0]
    /\ req' = NextEvent(r)
    /\ UNCHANGED <<activeCalls, handoffs, runs, unhandled, deleted>>
    /\ UNCHANGED <<delivered, poll, gen, http>>

\* an event that is not an object: event.callId throws inside the try of
\* processCallEvent, whose catch logs it
ProcessMalformedEvent(r) ==
    /\ AtEvent(r)
    /\ req' = NextEventAfterFailure(r)
    /\ UNCHANGED <<activeCalls, handoffs, runs, unhandled, deleted, streak>>
    /\ UNCHANGED <<delivered, poll, gen, http>>

\* case CallState.Established: handleCallEstablished suspends on getCall
EstablishedLookup(r) ==
    /\ AtEvent(r)
    /\ \E c \in CallIds :
         req' = [req EXCEPT ![r].pc = "awaitGetCall", ![r].cur = c,
                            ![r].failed = ""]
    /\ UNCHANGED <<activeCalls, handoffs, runs, unhandled, deleted, streak>>
    /\ UNCHANGED <<delivered, poll, gen, http>>

\* getCall resolved: activeCalls.set(callId, {placeholders}); callInfo is unused
EstablishedRecord(c) ==
    activeCalls' = MapSet(activeCalls, c,
                          [meetingId |-> MEETING_ID_PLACEHOLDER,
                           userId |-> USER_ID_PLACEHOLDER])

GetCallReturns(r) ==
    /\ req[r].pc = "awaitGetCall"
    /\ EstablishedRecord(req[r].cur)
    /\ streak' = [streak EXCEPT ![req[r].cur] = 0]
    /\ req' = NextEvent(r)
    /\ UNCHANGED <<handoffs, runs, unhandled, deleted>>
    /\ UNCHANGED <<delivered, poll, gen, http>>

\* were the rejection to leave handleCallEstablished and processCallEvent, the
\* catch of handleCallingWebhook would answer 202 with the rest of the batch unread
GetCallFailsPropagates(r) ==
    /\ req[r].pc = "awaitGetCall"
    /\ streak' = [streak EXCEPT ![req[r].cur] = 0]
    /\ req' = [req EXCEPT ![r].pc = "done", ![r].resp = 202, ![r].cur = "",
                          ![r].unread = req[r].n - req[r].idx,
                          ![r].n = 0, ![r].idx = 0,
                          ![r].threw = IF @ = 0 THEN 1 ELSE @]
    /\ UNCHANGED <<activeCalls, handoffs, runs, unhandled, deleted>>
    /\ UNCHANGED <<delivered, poll, gen, http>>

\* were the association recorded before the lookup, a rejected lookup would
\* leave it behind
GetCallFailsRecords(r) ==
    /\ req[r].pc = "awaitGetCall"
    /\ EstablishedRecord(req[r].cur)
    /\ streak' = [streak EXCEPT ![req[r].cur] = 0]
    /\ req' = [NextEventAfterFailure(r) EXCEPT ![r].failed = req[r].cur]
    /\ UNCHANGED <<handoffs, runs, unhandled, deleted>>
    /\ UNCHANGED <<delivered, poll, gen, http>>

\* getCall rejected (GET_CALL_FAILED): the catch of handleCallEstablished logs it
GetCallFails(r) ==
    /\ req[r].pc = "awaitGetCall"
    /\ streak' = [streak EXCEPT ![req[r].cur] = 0]
    /\ req' = [NextEventAfterFailure(r) EXCEPT ![r].failed = req[r].cur]
    /\ UNCHANGED <<activeCalls, handoffs, runs, unhandled, deleted>>
    /\ UNCHANGED <<delivered, poll, gen, http>>

\* handleCallTerminated: get, return when absent, delete, processMeetingAsync(...)
\* without await.  processMeetingAsync runs up to its first await, inside
\* waitForTranscript, before control comes back.
HandleCallTerminatedNoDelete(c) ==
    IF ~MapHas(activeCalls, c)
    THEN UNCHANGED <<activeCalls, handoffs, runs, deleted>>
    ELSE /\ UNCHANGED activeCalls
         /\ deleted' = deleted
         /\ handoffs' = Append(handoffs,
                               <<activeCalls[c].meetingId, activeCalls[c].userId, c>>)
         /\ runs' = Append(runs, "waitForTranscript")

HandleCallTerminated(c) ==
    IF ~MapHas(activeCalls, c)
    THEN UNCHANGED <<activeCalls, handoffs, runs, deleted>>
    ELSE /\ activeCalls' = MapDelete(activeCalls, c)
         /\ deleted' = deleted \cup {c}
         /\ handoffs' = Append(handoffs,
                               <<activeCalls[c].meetingId, activeCalls[c].userId, c>>)
         /\ runs' = Append(runs, "waitForTranscript")

ProcessTerminated(r, c) ==
    /\ AtEvent(r)
    /\ HandleCallTerminated(c)
    /\ streak' = [streak EXCEPT ![c] = IF @ < 2 THEN @ + 1 ELSE @]
    /\ req' = [NextEvent(r) EXCEPT ![r].started = @ \/ MapHas(activeCalls, c)]
    /\ UNCHANGED unhandled
    /\ UNCHANGED <<delivered, poll, gen, http>>

(***************************************************************************)
(* processMeetingAsync: waitForTranscript(userId, meetingId, 20, 30000),   *)
(* then generateMinutes; every failure ends in its own catch.              *)
(***************************************************************************)
RunAt(i, pc) == i \in DOMAIN runs /\ runs[i] = pc

WaitForTranscriptReturns(i) ==
    /\ RunAt(i, "waitForTranscript")
    /\ runs' = [runs EXCEPT ![i] = "generateMinutes"]
    /\ UNCHANGED <<activeCalls, req, handoffs, unhandled, deleted, streak>>
    /\ UNCHANGED <<delivered, poll, gen, http>>

\* without the try/catch of processMeetingAsync the rejection is unhandled
RunFailsUncaught(i) ==
    /\ runs' = [runs EXCEPT ![i] = "failed"]
    /\ unhandled' = unhandled + 1
    /\ UNCHANGED <<activeCalls, req, handoffs, deleted, streak>>
    /\ UNCHANGED <<delivered, poll, gen, http>>

\* catch (error) { logger.error('Failed to process meeting', ...) }
RunFails(i) ==
    /\ runs' = [runs EXCEPT ![i] = "failed"]
    /\ UNCHANGED <<activeCalls, req, handoffs, unhandled, deleted, streak>>
    /\ UNCHANGED <<delivered, poll, gen, http>>

WaitForTranscriptThrows(i) ==
    /\ RunAt(i, "waitForTranscript")
    /\ RunFails(i)

GenerateMinutesReturns(i) ==
    /\ RunAt(i, "generateMinutes")
    /\ runs' = [runs EXCEPT ![i] = "completed"]
    /\ UNCHANGED <<activeCalls, req, handoffs, unhandled, deleted, streak>>
    /\ UNCHANGED <<delivered, poll, gen, http>>

GenerateMinutesThrows(i) ==
    /\ RunAt(i, "generateMinutes")
    /\ RunFails(i)

RunIds == 1..MaxEvents

\* the steps the handler of request r takes by itself once the request is in
LoopStep(r) ==
    \/ ProcessEstablishing(r)
    \/ ProcessUnhandledState(r)
    \/ ProcessMalformedEvent(r)
    \/ EstablishedLookup(r)
    \/ \E c \in CallIds : ProcessTerminated(r, c)
    \/ Respond(r)

PipelineStep(i) ==
    \/ WaitForTranscriptReturns(i)
    \/ WaitForTranscriptThrows(i)
    \/ GenerateMinutesReturns(i)
    \/ GenerateMinutesThrows(i)

TrackerNext ==
    \/ \E r \in Req : ReceiveInvalid(r)
    \/ \E r \in Req : ReceiveBatch(r)
    \/ \E r \in Req : ProcessEstablishing(r)
    \/ \E r \in Req : ProcessUnhandledState(r)
    \/ \E r \in Req : ProcessMalformedEvent(r)
    \/ \E r \in Req : EstablishedLookup(r)
    \/ \E r \in Req : GetCallReturns(r)
    \/ \E r \in Req : GetCallFails(r)
    \/ \E r \in Req, c \in CallIds : ProcessTerminated(r, c)
    \/ \E r \in Req : Respond(r)
    \/ \E i \in RunIds : WaitForTranscriptReturns(i)
    \/ \E i \in RunIds : WaitForTranscriptThrows(i)
    \/ \E i \in RunIds : GenerateMinutesReturns(i)
    \/ \E i \in RunIds : GenerateMinutesThrows(i)

(***************************************************************************)
(* OpenAIService.  A text is a sequence of tokens, each standing for a     *)
(* piece of the string:                                                    *)
(*   "fence" three backticks, "json" the word json, "\n" a newline, " " a  *)
(*   blank, "\"" a double quote, "a" a letter, "{" "}" "[" "]" the          *)
(*   brackets, "null" "true" "false" "0" "1" the JSON literals, and        *)
(*   "title:", "summary:", ... a quoted member name with its colon.        *)
(* The commas of a JSON text are left out: members and items follow one    *)
(* another.                                                                *)
(***************************************************************************)
FENCE == "fence"
NL == "\n"
SP == " "
QUOTE == "\""

MinutesKeys == {"title", "summary", "keyPoints", "decisions", "actionItems", "nextSteps"}
\* the member names a response may hold: those read, and participants
JsonKeys == MinutesKeys \cup {"participants"}
KeyToken(k) == k \o ":"
KeyOf(tok) == CHOOSE k \in JsonKeys : KeyToken(k) = tok
IsKeyToken(tok) == \E k \in JsonKeys : KeyToken(k) = tok
IsSpace(tok) == tok \in {SP, NL}

\* A JavaScript value: t is its type ("undefined", "null", "true", "false",
\* "zero", "one", "str", "arr", "obj"); s the text of a string; items the
\* items of an array, or the members [k, v] of an object in source order.
JsVal(t, str, items) == [t |-> t, s |-> str, items |-> items]
Undefined == JsVal("undefined", <<>>, <<>>)
JsNull == JsVal("null", <<>>, <<>>)
JsStr(str) == JsVal("str", str, <<>>)
JsArr(items) == JsVal("arr", <<>>, items)
JsObj(members) == JsVal("obj", <<>>, members)

\* ToBoolean: undefined, null, false, 0 and "" are falsy
Truthy(v) ==
    /\ v.t \notin {"undefined", "null", "false", "zero"}
    /\ ~(v.t = "str" /\ v.s = <<>>)

\* a || b
OrElse(a, b) == IF Truthy(a) THEN a ELSE b

\* Array.isArray
IsArray(v) == v.t = "arr"

\* String.prototype.trim
RECURSIVE TrimLeft(_)
TrimLeft(x) ==
    IF x # <<>> /\ IsSpace(Head(x)) THEN TrimLeft(Tail(x)) ELSE x

RECURSIVE TrimRight(_)
TrimRight(x) ==
    IF x # <<>> /\ IsSpace(x[Len(x)]) THEN TrimRight(SubSeq(x, 1, Len(x) - 1)) ELSE x

Trim(x) == TrimRight(TrimLeft(x))

StartsWith(x, prefix) ==
    Len(x) >= Len(prefix) /\ SubSeq(x, 1, Len(prefix)) = prefix

\* x.replace(/FENCE json \n?/g, ''): every fence that opens a json block
RECURSIVE RemoveJsonFences(_)
RemoveJsonFences(x) ==
    IF x = <<>> THEN <<>>
    ELSE IF StartsWith(x, <<FENCE, "json", NL>>) THEN RemoveJsonFences(SubSeq(x, 4, Len(x)))
    ELSE IF StartsWith(x, <<FENCE, "json">>) THEN RemoveJsonFences(SubSeq(x, 3, Len(x)))
    ELSE <<Head(x)>> \o RemoveJsonFences(Tail(x))

\* x.replace(/FENCE \n?$/g, ''): a fence that ends the text
RemoveFinalFence(x) ==
    IF Len(x) >= 2 /\ x[Len(x) - 1] = FENCE /\ x[Len(x)] = NL
    THEN SubSeq(x, 1, Len(x) - 2)
    ELSE IF Len(x) >= 1 /\ x[Len(x)] = FENCE
    THEN SubSeq(x, 1, Len(x) - 1)
    ELSE x

\* x.replace(/FENCE \n?/g, ''): every fence
RECURSIVE RemoveFences(_)
RemoveFences(x) ==
    IF x = <<>> THEN <<>>
    ELSE IF StartsWith(x, <<FENCE, NL>>) THEN RemoveFences(SubSeq(x, 3, Len(x)))
    ELSE IF Head(x) = FENCE THEN RemoveFences(Tail(x))
    ELSE <<Head(x)>> \o RemoveFences(Tail(x))

\* parseMinutesResponse, up to JSON.parse: trim, then drop the markdown fences
StripFences(content) ==
    LET jsonString == Trim(content)
    IN IF StartsWith(jsonString, <<FENCE, "json">>)
       THEN RemoveFinalFence(RemoveJsonFences(jsonString))
       ELSE IF StartsWith(jsonString, <<FENCE>>)
       THEN RemoveFences(jsonString)
       ELSE jsonString

(***************************************************************************)
(* JSON.parse over the tokens.  A parse answers [ok, val, pos]: whether a  *)
(* value was read, the value, and the position after it.                   *)
(***************************************************************************)
ParseFail == [ok |-> FALSE, val |-> Undefined, pos |-> 0]
Parsed(v, pos) == [ok |-> TRUE, val |-> v, pos |-> pos]

RECURSIVE SkipSpace(_, _)
SkipSpace(x, i) ==
    IF i <= Len(x) /\ IsSpace(x[i]) THEN SkipSpace(x, i + 1) ELSE i

\* a string: from the quote at i to the next quote; a raw newline is an error
RECURSIVE ParseString(_, _, _)
ParseString(x, i, j) ==
    IF j > Len(x) \/ x[j] = NL THEN ParseFail
    ELSE IF x[j] = QUOTE THEN Parsed(JsStr(SubSeq(x, i + 1, j - 1)), j + 1)
    ELSE ParseString(x, i, j + 1)

RECURSIVE ParseValue(_, _)
RECURSIVE ParseItems(_, _, _)
RECURSIVE ParseMembers(_, _, _)

ParseValue(x, i) ==
    IF i > Len(x) THEN ParseFail
    ELSE IF x[i] = "null" THEN Parsed(JsNull, i + 1)
    ELSE IF x[i] = "true" THEN Parsed(JsVal("true", <<>>, <<>>), i + 1)
    ELSE IF x[i] = "false" THEN Parsed(JsVal("false", <<>>, <<>>), i + 1)
    ELSE IF x[i] = "0" THEN Parsed(JsVal("zero", <<>>, <<>>), i + 1)
    ELSE IF x[i] = "1" THEN Parsed(JsVal("one", <<>>, <<>>), i + 1)
    ELSE IF x[i] = QUOTE THEN ParseString(x, i, i + 1)
    ELSE IF x[i] = "[" THEN ParseItems(x, SkipSpace(x, i + 1), <<>>)
    ELSE IF x[i] = "{" THEN ParseMembers(x, SkipSpace(x, i + 1), <<>>)
    ELSE ParseFail

ParseItems(x, i, acc) ==
    IF i > Len(x) THEN ParseFail
    ELSE IF x[i] = "]" THEN Parsed(JsArr(acc), i + 1)
    ELSE LET v == ParseValue(x, i)
         IN IF ~v.ok THEN ParseFail
            ELSE ParseItems(x, SkipSpace(x, v.pos), Append(acc, v.val))

ParseMembers(x, i, acc) ==
    IF i > Len(x) THEN ParseFail
    ELSE IF x[i] = "}" THEN Parsed(JsObj(acc), i + 1)
    ELSE IF ~IsKeyToken(x[i]) THEN ParseFail
    ELSE LET v == ParseValue(x, SkipSpace(x, i + 1))
         IN IF ~v.ok THEN ParseFail
            ELSE ParseMembers(x, SkipSpace(x, v.pos),
                              Append(acc, [k |-> KeyOf(x[i]), v |-> v.val]))

\* JSON.parse(text): one value, blanks around it, nothing else; ok = FALSE
\* stands for the SyntaxError
JsonParse(x) ==
    LET v == ParseValue(x, SkipSpace(x, 1))
    IN IF v.ok /\ SkipSpace(x, v.pos) = Len(x) + 1 THEN v ELSE ParseFail

\* parsed.key: the last member of that name of an object, undefined otherwise
\* (none of the names read is a property of a string, a number or an array)
GetProp(v, key) ==
    LET hits == {i \in DOMAIN v.items : v.items[i].k = key}
    IN IF v.t = "obj" /\ hits # {}
       THEN v.items[CHOOSE i \in hits : \A j \in hits : j <= i].v
       ELSE Undefined

(***************************************************************************)
(* The error types (types).                                                *)
(***************************************************************************)
NoError == [name |-> "", code |-> "", statusCode |-> 0, message |-> <<>>]

\* `Transcript not found for meeting: ${meetingId}`
TranscriptNotFoundError(meetingId) ==
    [name |-> "TranscriptNotFoundError", code |-> "TRANSCRIPT_NOT_FOUND",
     statusCode |-> 404,
     message |-> <<"Transcript not found for meeting: ", meetingId>>]

\* new MeetingBotError(`${what}: ${error.message}`, code, 500, error)
MeetingBotError(what, code) ==
    [name |-> "MeetingBotError", code |-> code, statusCode |-> 500,
     message |-> <<what>>]

\* new GraphApiError(message, details)
GraphApiError(message) ==
    [name |-> "GraphApiError", code |-> "GRAPH_API_ERROR", statusCode |-> 500,
     message |-> message]

\* new OpenAIError(message, details)
OpenAIError(message) ==
    [name |-> "OpenAIError", code |-> "OPENAI_ERROR", statusCode |-> 500,
     message |-> message]

(***************************************************************************)
(* TranscriptService: getLatestTranscript and waitForTranscript.  The      *)
(* store answers each list query and each download as it pleases.          *)
(***************************************************************************)
MaxAttemptsBound == 3   \* the largest maxAttempts tried
MaxList == 3            \* the longest transcript list the store returns

MeetingIds == {"m1", "m2"}
UserIds == {"u1", "u2"}
TranscriptIds == {"t1", "t2", "t3"}
\* a descriptor: its id and its createdDateTime as new Date(...).getTime() reads it
Descriptors == [id : TranscriptIds, created : 1..3]

DistinctIds(l) == \A i, j \in DOMAIN l : i # j => l[i].id # l[j].id

TranscriptLists ==
    {l \in UNION {[1..k -> Descriptors] : k \in 1..MaxList} : DistinctIds(l)}

\* the list taken as it comes, without the sort
FirstOf(l) == l[1]

\* the sort, were it to put the oldest first
OldestOf(l) ==
    LET oldest(i) == \A j \in DOMAIN l : l[i].created <= l[j].created
        first == CHOOSE i \in DOMAIN l :
                   oldest(i) /\ \A j \in DOMAIN l : oldest(j) => i <= j
    IN l[first]

\* transcripts.sort((a, b) => time(b) - time(a))[0]: the sort is stable, so the
\* first of the list among those created last
LatestOf(l) ==
    LET newest(i) == \A j \in DOMAIN l : l[j].created <= l[i].created
        first == CHOOSE i \in DOMAIN l :
                   newest(i) /\ \A j \in DOMAIN l : newest(j) => i <= j
    IN l[first]

\* the text a download of a descriptor yields
ContentOf(id) == <<"content of", id>>

PollIdle ==
    [pc |-> "idle", userId |-> "", meetingId |-> "", maxAttempts |-> 0,
     attempt |-> 0, list |-> <<>>, target |-> "", queries |-> 0, delays |-> 0,
     downloads |-> 0, sawEmpty |-> FALSE, sawError |-> FALSE, result |-> <<>>,
     error |-> NoError]

\* waitForTranscript(userId, meetingId, maxAttempts, delayMs): for (let attempt = 1; ...
PollStart ==
    /\ poll.pc = "idle"
    /\ \E u \in UserIds, m \in MeetingIds, k \in 0..MaxAttemptsBound :
         poll' = [poll EXCEPT !.pc = "loop", !.userId = u, !.meetingId = m,
                              !.maxAttempts = k, !.attempt = 1]
    /\ UNCHANGED <<activeCalls, req, handoffs, runs, unhandled, delivered, deleted,
                   streak, gen, http>>

\* were the loop to run from 0: for (let attempt = 0; attempt <= maxAttempts; ...
InLoopOnceMore == poll.pc = "loop" /\ poll.attempt <= poll.maxAttempts + 1

InLoop == poll.pc = "loop" /\ poll.attempt <= poll.maxAttempts

\* if (attempt < maxAttempts) await this.delay(delayMs), with the delay issued on
\* the last attempt too
AfterAttemptAlwaysDelays(p) ==
    [p EXCEPT !.pc = "delay", !.delays = @ + 1]

\* the end of an attempt that returned nothing, in the try and in the catch alike:
\* if (attempt < maxAttempts) await this.delay(delayMs); then attempt++
AfterAttempt(p) ==
    IF p.attempt < p.maxAttempts
    THEN [p EXCEPT !.pc = "delay", !.delays = @ + 1]
    ELSE [p EXCEPT !.pc = "loop", !.attempt = @ + 1]

\* the catch of waitForTranscript, were it to retry at once
CaughtWithoutDelay(p, e) ==
    [p EXCEPT !.pc = "loop", !.attempt = @ + 1, !.sawError = TRUE]

\* the catch of waitForTranscript, were it to rethrow on the last attempt
CaughtRethrowsOnLast(p, e) ==
    IF p.attempt < p.maxAttempts
    THEN [p EXCEPT !.pc = "delay", !.delays = @ + 1, !.sawError = TRUE]
    ELSE [p EXCEPT !.pc = "failed", !.error = e, !.sawError = TRUE]

\* catch (error) { logger.warn(...); if (attempt < maxAttempts) await this.delay(delayMs) }
Caught(p, e) == [AfterAttempt(p) EXCEPT !.sawError = TRUE]

\* getTranscripts answered []: transcripts.length > 0 is false
PollListEmpty ==
    /\ InLoop
    /\ poll' = AfterAttempt([poll EXCEPT !.queries = @ + 1, !.sawEmpty = TRUE])
    /\ UNCHANGED <<activeCalls, req, handoffs, runs, unhandled, delivered, deleted,
                   streak, gen, http>>

\* getTranscripts threw GET_TRANSCRIPTS_FAILED
PollListFails ==
    /\ InLoop
    /\ poll' = Caught([poll EXCEPT !.queries = @ + 1],
                      MeetingBotError("Failed to get transcripts", "GET_TRANSCRIPTS_FAILED"))
    /\ UNCHANGED <<activeCalls, req, handoffs, runs, unhandled, delivered, deleted,
                   streak, gen, http>>

\* getTranscripts answered a non-empty list: return await this.getLatestTranscript(...)
PollListNonEmpty ==
    /\ InLoop
    /\ poll' = [poll EXCEPT !.queries = @ + 1, !.pc = "latest"]
    /\ UNCHANGED <<activeCalls, req, handoffs, runs, unhandled, delivered, deleted,
                   streak, gen, http>>

\* getLatestTranscript queries the list again; the query throws, and the throw
\* reaches the catch of waitForTranscript
LatestListFails ==
    /\ poll.pc = "latest"
    /\ poll' = Caught([poll EXCEPT !.queries = @ + 1],
                      MeetingBotError("Failed to get transcripts", "GET_TRANSCRIPTS_FAILED"))
    /\ UNCHANGED <<activeCalls, req, handoffs, runs, unhandled, delivered, deleted,
                   streak, gen, http>>

\* ... or answers []: throw new TranscriptNotFoundError(meetingId), caught likewise
LatestListEmpty ==
    /\ poll.pc = "latest"
    /\ poll' = Caught([poll EXCEPT !.queries = @ + 1],
                      TranscriptNotFoundError(poll.meetingId))
    /\ UNCHANGED <<activeCalls, req, handoffs, runs, unhandled, delivered, deleted,
                   streak, gen, http>>

\* ... or answers a list: sort, take the first, download it
LatestListNonEmpty ==
    /\ poll.pc = "latest"
    /\ \E l \in TranscriptLists :
         poll' = [poll EXCEPT !.queries = @ + 1, !.pc = "download", !.list = l,
                              !.target = LatestOf(l).id]
    /\ UNCHANGED <<activeCalls, req, handoffs, runs, unhandled, delivered, deleted,
                   streak, gen, http>>

\* downloadTranscript returned the content: waitForTranscript returns it
DownloadSucceeds ==
    /\ poll.pc = "download"
    /\ poll' = [poll EXCEPT !.downloads = @ + 1, !.pc = "returned",
                            !.result = ContentOf(poll.target)]
    /\ UNCHANGED <<activeCalls, req, handoffs, runs, unhandled, delivered, deleted,
                   streak, gen, http>>

\* were the failure of the download to leave waitForTranscript
DownloadFailsPropagates ==
    /\ poll.pc = "download"
    /\ poll' = [poll EXCEPT !.downloads = @ + 1, !.target = "", !.list = <<>>,
                            !.pc = "failed", !.sawError = TRUE,
                            !.error = MeetingBotError("Failed to download transcript",
                                                      "DOWNLOAD_TRANSCRIPT_FAILED")]
    /\ UNCHANGED <<activeCalls, req, handoffs, runs, unhandled, delivered, deleted,
                   streak, gen, http>>

\* downloadTranscript threw DOWNLOAD_TRANSCRIPT_FAILED: rethrown by
\* getLatestTranscript, caught by waitForTranscript
DownloadFails ==
    /\ poll.pc = "download"
    /\ poll' = Caught([poll EXCEPT !.downloads = @ + 1, !.target = "", !.list = <<>>],
                      MeetingBotError("Failed to download transcript",
                                      "DOWNLOAD_TRANSCRIPT_FAILED"))
    /\ UNCHANGED <<activeCalls, req, handoffs, runs, unhandled, delivered, deleted,
                   streak, gen, http>>

\* the delay elapsed: attempt++
DelayElapses ==
    /\ poll.pc = "delay"
    /\ poll' = [poll EXCEPT !.pc = "loop", !.attempt = @ + 1]
    /\ UNCHANGED <<activeCalls, req, handoffs, runs, unhandled, delivered, deleted,
                   streak, gen, http>>

\* the loop is over: throw new TranscriptNotFoundError(meetingId)
PollExhausted ==
    /\ poll.pc = "loop"
    /\ poll.attempt > poll.maxAttempts
    /\ poll' = [poll EXCEPT !.pc = "failed",
                            !.error = TranscriptNotFoundError(poll.meetingId)]
    /\ UNCHANGED <<activeCalls, req, handoffs, runs, unhandled, delivered, deleted,
                   streak, gen, http>>

PollerNext ==
    \/ PollStart
    \/ PollListEmpty
    \/ PollListFails
    \/ PollListNonEmpty
    \/ LatestListFails
    \/ LatestListEmpty
    \/ LatestListNonEmpty
    \/ DownloadSucceeds
    \/ DownloadFails
    \/ DelayElapses
    \/ PollExhausted

(***************************************************************************)
(* OpenAIService.extractParticipants.  A transcript is a text too; its     *)
(* tokens are the names "Ana" (three characters) and "Al" (two), the       *)
(* digits "0" and "1", "[", "]", ":", " ", the letter "a", the newline and *)
(* "block", a long run of characters.                                      *)
(***************************************************************************)
\* "block" stands for five thousand characters of speech without a colon
CharLen(tok) ==
    CASE tok = "Ana" -> 3 [] tok = "Al" -> 2 [] tok = "block" -> 5000 [] OTHER -> 1

\* String.prototype.length
RECURSIVE TextLength(_)
TextLength(x) == IF x = <<>> THEN 0 ELSE CharLen(Head(x)) + TextLength(Tail(x))

IsDigit(tok) == tok \in {"0", "1"}

\* transcript.split('\n'), cur being the line under way
RECURSIVE SplitLines(_, _)
SplitLines(x, cur) ==
    IF x = <<>> THEN <<cur>>
    ELSE IF Head(x) = NL THEN <<cur>> \o SplitLines(Tail(x), <<>>)
    ELSE SplitLines(Tail(x), Append(cur, Head(x)))

\* (?:\[[\d:]+\])? at the head of the line: the position of its "]", 0 when
\* the group matches nothing
RECURSIVE StampEnd(_, _)
StampEnd(line, k) ==
    IF k > Len(line) THEN 0
    ELSE IF IsDigit(line[k]) \/ line[k] = ":" THEN StampEnd(line, k + 1)
    ELSE IF line[k] = "]" /\ k > 2 THEN k
    ELSE 0

StampLength(line) ==
    IF line # <<>> /\ line[1] = "[" THEN StampEnd(line, 2) ELSE 0

FirstColon(x) ==
    IF \E i \in DOMAIN x : x[i] = ":"
    THEN CHOOSE i \in DOMAIN x : x[i] = ":" /\ \A j \in 1..(i - 1) : x[j] # ":"
    ELSE 0

NoLabel == [ok |-> FALSE, name |-> <<>>]

\* \s*([^:]+): from the head of rest.  The blanks are taken greedily and
\* the group runs to the first colon; when only blanks precede the colon
\* the last of them is given back to the group.
LabelFrom(rest) ==
    LET c == FirstColon(rest)
        w == SkipSpace(rest, 1) - 1
    IN IF c <= 1 THEN NoLabel
       ELSE IF w < c - 1 THEN [ok |-> TRUE, name |-> SubSeq(rest, w + 1, c - 1)]
       ELSE [ok |-> TRUE, name |-> SubSeq(rest, c - 1, c - 1)]

\* line.match(/^(?:\[[\d:]+\])?\s*([^:]+):/): with the stamp first, and
\* without it when nothing matches after the stamp
MatchLabel(line) ==
    LET k == StampLength(line)
        after == LabelFrom(SubSeq(line, k + 1, Len(line)))
    IN IF k > 0 /\ after.ok THEN after ELSE LabelFrom(line)

RECURSIVE CollectParticipants(_, _)
CollectParticipants(lines, participants) ==
    IF lines = <<>> THEN participants
    ELSE LET match == MatchLabel(Head(lines))
             name == Trim(match.name)
             keep == /\ match.ok
                     /\ TextLength(name) > 2
                     /\ ~(\A i \in DOMAIN name : IsDigit(name[i]))
                     /\ ~(\E i \in DOMAIN participants : participants[i] = JsStr(name))
         IN CollectParticipants(Tail(lines),
                IF keep THEN Append(participants, JsStr(name)) ELSE participants)

ExtractParticipants(transcript) ==
    JsArr(CollectParticipants(SplitLines(transcript, <<>>), <<>>))

(***************************************************************************)
(* OpenAIService.parseMinutesResponse.  date and generatedAt, read from    *)
(* the clock, are left out of the document.                                *)
(***************************************************************************)
NoMinutes ==
    [meetingId |-> "", title |-> Undefined, participants |-> Undefined,
     summary |-> Undefined, keyPoints |-> Undefined, actionItems |-> Undefined,
     decisions |-> Undefined, nextSteps |-> Undefined]

UntitledTitle == <<"Reunion sin titulo">>
FallbackTitle == <<"Error al procesar acta">>
FallbackSummaryPrefix == <<"Error al generar el acta automaticamente. Respuesta: ">>

\* the object built from a parsed response, were the participants of the
\* response to win over those of the transcript
ParsedMinutesTrustsModel(parsed, meetingId, originalTranscript) ==
    [meetingId |-> meetingId,
     title |-> OrElse(GetProp(parsed, "title"), JsStr(UntitledTitle)),
     participants |-> OrElse(GetProp(parsed, "participants"),
                             ExtractParticipants(originalTranscript)),
     summary |-> OrElse(GetProp(parsed, "summary"), JsStr(<<>>)),
     keyPoints |-> OrElse(GetProp(parsed, "keyPoints"), JsArr(<<>>)),
     actionItems |-> OrElse(GetProp(parsed, "actionItems"), JsArr(<<>>)),
     decisions |-> OrElse(GetProp(parsed, "decisions"), JsArr(<<>>)),
     nextSteps |-> OrElse(GetProp(parsed, "nextSteps"), JsArr(<<>>))]

\* the object built from a parsed response
ParsedMinutes(parsed, meetingId, originalTranscript) ==
    [meetingId |-> meetingId,
     title |-> OrElse(GetProp(parsed, "title"), JsStr(UntitledTitle)),
     participants |-> ExtractParticipants(originalTranscript),
     summary |-> OrElse(GetProp(parsed, "summary"), JsStr(<<>>)),
     keyPoints |-> OrElse(GetProp(parsed, "keyPoints"), JsArr(<<>>)),
     actionItems |-> OrElse(GetProp(parsed, "actionItems"), JsArr(<<>>)),
     decisions |-> OrElse(GetProp(parsed, "decisions"), JsArr(<<>>)),
     nextSteps |-> OrElse(GetProp(parsed, "nextSteps"), JsArr(<<>>))]

\* a catch that would drop the response from the summary
FallbackMinutesWithoutResponse(content, meetingId) ==
    [meetingId |-> meetingId,
     title |-> JsStr(FallbackTitle),
     participants |-> JsArr(<<>>),
     summary |-> JsStr(<<>>),
     keyPoints |-> JsArr(<<>>),
     actionItems |-> JsArr(<<>>),
     decisions |-> JsArr(<<>>),
     nextSteps |-> Undefined]

\* the object returned from the catch
FallbackMinutes(content, meetingId) ==
    [meetingId |-> meetingId,
     title |-> JsStr(FallbackTitle),
     participants |-> JsArr(<<>>),
     summary |-> JsStr(FallbackSummaryPrefix \o content),
     keyPoints |-> JsArr(<<>>),
     actionItems |-> JsArr(<<>>),
     decisions |-> JsArr(<<>>),
     nextSteps |-> Undefined]

\* JSON.parse throws a SyntaxError, and reading parsed.title of null throws a
\* TypeError: both end in the catch
ParseMinutesResponse(content, meetingId, originalTranscript) ==
    LET parsed == JsonParse(StripFences(content))
    IN IF ~parsed.ok \/ parsed.val.t = "null"
       THEN FallbackMinutes(content, meetingId)
       ELSE ParsedMinutes(parsed.val, meetingId, originalTranscript)

(***************************************************************************)
(* The responses of the generation collaborator and the transcripts the    *)
(* calls are made with.                                                    *)
(***************************************************************************)
Quoted(x) == <<QUOTE>> \o x \o <<QUOTE>>

\* JSON texts of every type, for a member or by themselves
FieldTexts ==
    {<<"null">>, <<"0">>, <<"1">>, <<"true">>, <<"false">>,
     Quoted(<<>>), Quoted(<<"a">>), Quoted(<<"a", FENCE>>),
     <<"[", "]">>, <<"[">> \o Quoted(<<"a">>) \o <<"]">>, <<"{", "}">>}

OneMemberTexts ==
    {<<"{", KeyToken(k)>> \o v \o <<"}">> : k \in JsonKeys, v \in FieldTexts}

TwoMemberTexts ==
    {<<"{", KeyToken(k1)>> \o v \o <<SP, KeyToken(k2)>> \o w \o <<"}">> :
        k1 \in {"title", "keyPoints"}, k2 \in {"title", "summary"},
        v \in {<<"null">>, Quoted(<<"a">>)},
        w \in {<<"null">>, Quoted(<<"a">>), <<"[", "]">>}}

JsonTexts == FieldTexts \cup OneMemberTexts \cup TwoMemberTexts

\* texts JSON.parse rejects: prose, prose around a document, a member
\* without a value, an open string, an open array, a raw newline in a string
NotJsonTexts ==
    {<<"a">>, <<"a", SP, "{", "}">>, <<"{", "}", SP, "a">>, <<"{">>,
     <<"{", "title:", "}">>, <<QUOTE, "a">>, <<"[">> \o Quoted(<<"a">>),
     Quoted(<<"a", NL, "a">>), <<"{", "}", "{", "}">>, <<"json">>}

\* a text as it is, between blanks, or inside markdown fences
Wrappings(x) ==
    {x,
     <<SP, NL>> \o x \o <<NL>>,
     <<FENCE, "json", NL>> \o x \o <<NL, FENCE>>,
     <<FENCE, "json">> \o x \o <<FENCE, NL>>,
     <<FENCE, NL>> \o x \o <<NL, FENCE>>,
     <<FENCE>> \o x}

Contents ==
    UNION {Wrappings(x) : x \in JsonTexts \cup NotJsonTexts} \cup {<<SP>>, <<FENCE>>}

Transcripts ==
    {<<>>,
     <<"Ana", ":", SP, "a">>,
     <<"[", "0", ":", "1", "]", SP, "Ana", ":", SP, "a", NL,
       "Al", ":", SP, "a", NL, "Ana", ":", SP, "a">>,
     <<"[", "0", "0", ":", "1", "]", SP, "a">>,
     <<"0", "1", "0", ":", SP, "a", NL, SP, ":", "a">>,
     <<"block", "block", "block">>,
     <<"block", "block", "block", "a">>,
     <<"Ana", ":", SP, "block", "block", "block", NL, "Al", "a", ":", SP, "a">>}

(***************************************************************************)
(* OpenAIService.generateMinutes: one call, from the request to the        *)
(* collaborator to the document or the OpenAIError.                        *)
(***************************************************************************)
\* const maxTranscriptLength = 15000
maxTranscriptLength == 15000

\* text.substring(0, n): the first chars characters of text
Substring(text, n) ==
    [of |-> text, chars |-> IF TextLength(text) < n THEN TextLength(text) ELSE n]

NoPrompt == [transcript |-> Substring(<<>>, 0), truncated |-> FALSE]

\* buildUserPrompt, were it to cut without saying so
BuildUserPromptUnmarked(transcript) ==
    [transcript |-> Substring(transcript, maxTranscriptLength), truncated |-> FALSE]

\* buildUserPrompt: between the opening sentence and the closing one, the
\* transcript, or its first maxTranscriptLength characters followed by
\* '[Transcripcion truncada por limite de tokens]'
BuildUserPrompt(transcript) ==
    IF TextLength(transcript) > maxTranscriptLength
    THEN [transcript |-> Substring(transcript, maxTranscriptLength), truncated |-> TRUE]
    ELSE [transcript |-> Substring(transcript, TextLength(transcript)),
          truncated |-> FALSE]

GenIdle ==
    [pc |-> "idle", transcript |-> <<>>, meetingId |-> "", prompt |-> NoPrompt,
     choices |-> 0, content |-> Undefined, result |-> NoMinutes, error |-> NoError]

\* up to the request to the collaborator, which carries the user prompt
GenerateMinutes(transcript, meetingId) ==
    /\ gen.pc = "idle"
    /\ gen' = [gen EXCEPT !.pc = "awaitCompletion", !.transcript = transcript,
                          !.meetingId = meetingId,
                          !.prompt = BuildUserPrompt(transcript)]
    /\ UNCHANGED <<activeCalls, req, handoffs, runs, unhandled, delivered, deleted,
                   streak, poll, http>>

\* the outer catch of generateMinutes
GenFails(g, message) ==
    [g EXCEPT !.pc = "failed",
              !.error = OpenAIError(<<"Failed to generate minutes: ">> \o message)]

\* the request to the collaborator fails
CompletionFails ==
    /\ gen.pc = "awaitCompletion"
    /\ gen' = GenFails(gen, <<"request failed">>)
    /\ UNCHANGED <<activeCalls, req, handoffs, runs, unhandled, delivered, deleted,
                   streak, poll, http>>

\* !response.choices || response.choices.length === 0
CompletionNoChoices ==
    /\ gen.pc = "awaitCompletion"
    /\ gen' = GenFails(gen, <<"No response from Azure OpenAI">>)
    /\ UNCHANGED <<activeCalls, req, handoffs, runs, unhandled, delivered, deleted,
                   streak, poll, http>>

\* were an empty content handed to parseMinutesResponse
CompletionEmptyContentParsed(content) ==
    /\ gen.pc = "awaitCompletion"
    /\ ~Truthy(content)
    /\ gen' = [gen EXCEPT !.pc = "returned", !.choices = 1, !.content = content,
                          !.result = ParseMinutesResponse(<<>>, gen.meetingId,
                                                          gen.transcript)]
    /\ UNCHANGED <<activeCalls, req, handoffs, runs, unhandled, delivered, deleted,
                   streak, poll, http>>

\* response.choices[0].message?.content is undefined, null or ""
CompletionEmptyContent(content) ==
    /\ gen.pc = "awaitCompletion"
    /\ ~Truthy(content)
    /\ gen' = GenFails([gen EXCEPT !.choices = 1, !.content = content],
                       <<"Empty response from Azure OpenAI">>)
    /\ UNCHANGED <<activeCalls, req, handoffs, runs, unhandled, delivered, deleted,
                   streak, poll, http>>

CompletionContent(content) ==
    /\ gen.pc = "awaitCompletion"
    /\ Truthy(JsStr(content))
    /\ gen' = [gen EXCEPT !.pc = "returned", !.choices = 1,
                          !.content = JsStr(content),
                          !.result = ParseMinutesResponse(content, gen.meetingId,
                                                          gen.transcript)]
    /\ UNCHANGED <<activeCalls, req, handoffs, runs, unhandled, delivered, deleted,
                   streak, poll, http>>

MinutesNext ==
    \/ \E t \in Transcripts, m \in MeetingIds : GenerateMinutes(t, m)
    \/ CompletionFails
    \/ CompletionNoChoices
    \/ \E c \in {Undefined, JsNull, JsStr(<<>>)} : CompletionEmptyContent(c)
    \/ \E c \in Contents : CompletionContent(c)

(***************************************************************************)
(* The manual endpoints: one request, from its arrival to its response.    *)
(* status is the HTTP status sent (0: none yet); error, code and details   *)
(* are the fields of an error body; minutesFor is the meeting id the       *)
(* minutes of a 200 body were generated for.                               *)
(***************************************************************************)
NoDescriptor == [id |-> "", created |-> 0]

\* req.file as multer leaves it: the extension of originalname, whether the
\* mimetype is an allowed one, the size in bytes
NoFile == [present |-> FALSE, ext |-> "", mimeOk |-> FALSE, size |-> 0]

NoParsedVTT == [cues |-> <<>>, fullTranscript |-> <<>>, duration |-> 0, speakers |-> <<>>]

\* a join URL as new URL(joinUrl) reads it: whether it parses, the hostname
\* and the parts of the pathname between the slashes, each a text of tokens
NoUrl == [given |-> FALSE, parses |-> FALSE, hostname |-> <<>>, pathParts |-> <<>>]

\* what the collaborator answered to a completion request: how many choices,
\* and choices[0].message?.content
NoCompletion == [answered |-> FALSE, choices |-> 0, content |-> Undefined]

\* generations: the calls made to the generation collaborator for the request;
\* thrown: the error the awaited service call rejected with
HttpIdle ==
    [op |-> "", pc |-> "idle", userId |-> "", meetingId |-> "", callId |-> "",
     list |-> <<>>, target |-> NoDescriptor, transcript |-> <<>>,
     status |-> 0, error |-> "", code |-> "", details |-> <<>>,
     minutesFor |-> "", file |-> NoFile, parsed |-> NoParsedVTT,
     generations |-> 0, url |-> NoUrl, thrown |-> NoError, formatted |-> <<>>,
     completion |-> NoCompletion, summary |-> Undefined]

HttpFrame ==
    UNCHANGED <<activeCalls, req, handoffs, runs, unhandled, delivered, deleted,
                streak, poll, gen>>

\* res.status(status).json({error})
HttpRejects(h, status, error) ==
    [h EXCEPT !.pc = "done", !.status = status, !.error = error]

(***************************************************************************)
(* handleProcessTranscript.                                                *)
(***************************************************************************)
\* the catch: 500 with details: error.message and code: error.code
ProcessTranscriptFails(h, e) ==
    [h EXCEPT !.pc = "done", !.status = 500,
              !.error = "Failed to process transcript",
              !.details = e.message, !.code = e.code]

\* !callId && (!userId || !meetingId): 400
ProcessTranscriptRejected(userId, meetingId) ==
    /\ http.pc = "idle"
    /\ userId = "" \/ meetingId = ""
    /\ http' = HttpRejects([http EXCEPT !.op = "handleProcessTranscript",
                                        !.userId = userId, !.meetingId = meetingId],
                           400, "Either callId OR (userId and meetingId) are required")
    /\ HttpFrame

\* callId given: getTranscriptsByCallId(callId) is awaited
ProcessTranscriptByCall(userId, meetingId, callId) ==
    /\ http.pc = "idle"
    /\ callId # ""
    /\ http' = [http EXCEPT !.op = "handleProcessTranscript", !.pc = "awaitByCallList",
                            !.userId = userId, !.meetingId = meetingId,
                            !.callId = callId]
    /\ HttpFrame

\* no callId: getLatestTranscript(userId, meetingId) is awaited
ProcessTranscriptByMeeting(userId, meetingId) ==
    /\ http.pc = "idle"
    /\ userId # "" /\ meetingId # ""
    /\ http' = [http EXCEPT !.op = "handleProcessTranscript", !.pc = "awaitLatestList",
                            !.userId = userId, !.meetingId = meetingId]
    /\ HttpFrame

ByCallListFails ==
    /\ http.pc = "awaitByCallList"
    /\ http' = ProcessTranscriptFails(http,
                   MeetingBotError("Failed to get transcripts by call ID",
                                   "GET_TRANSCRIPTS_BY_CALL_FAILED"))
    /\ HttpFrame

\* transcripts.length === 0: 404
ByCallListEmpty ==
    /\ http.pc = "awaitByCallList"
    /\ http' = HttpRejects(http, 404, "No transcripts found for this call")
    /\ HttpFrame

\* transcripts.sort((a, b) => time(b) - time(a))[0], as in getLatestTranscript
LatestByCall(l) ==
    LET newest(i) == \A j \in DOMAIN l : l[j].created <= l[i].created
        first == CHOOSE i \in DOMAIN l :
                   newest(i) /\ \A j \in DOMAIN l : newest(j) => i <= j
    IN l[first]

ByCallListNonEmpty(l) ==
    /\ http.pc = "awaitByCallList"
    /\ http' = [http EXCEPT !.pc = "awaitByCallDownload", !.list = l,
                            !.target = LatestByCall(l)]
    /\ HttpFrame

ByCallDownloadSucceeds ==
    /\ http.pc = "awaitByCallDownload"
    /\ http' = [http EXCEPT !.pc = "awaitMinutes",
                            !.transcript = ContentOf(http.target.id)]
    /\ HttpFrame

\* the download failed and latest.content is there: it is the transcript
ByCallDownloadFailsWithContent ==
    /\ http.pc = "awaitByCallDownload"
    /\ http' = [http EXCEPT !.pc = "awaitMinutes",
                            !.transcript = <<"inline content of", http.target.id>>]
    /\ HttpFrame

\* the download failed and there is no latest.content: new Error(...), no code
ByCallDownloadFailsNoContent ==
    /\ http.pc = "awaitByCallDownload"
    /\ http' = ProcessTranscriptFails(http,
                   [NoError EXCEPT !.name = "Error",
                                   !.message = <<"Transcript content not available">>])
    /\ HttpFrame

\* getLatestTranscript: the list query fails
ManualLatestListFails ==
    /\ http.pc = "awaitLatestList"
    /\ http' = ProcessTranscriptFails(http,
                   MeetingBotError("Failed to get transcripts", "GET_TRANSCRIPTS_FAILED"))
    /\ HttpFrame

\* getLatestTranscript: transcripts.length === 0
ManualLatestListEmpty ==
    /\ http.pc = "awaitLatestList"
    /\ http' = ProcessTranscriptFails(http, TranscriptNotFoundError(http.meetingId))
    /\ HttpFrame

ManualLatestListNonEmpty(l) ==
    /\ http.pc = "awaitLatestList"
    /\ http' = [http EXCEPT !.pc = "awaitLatestDownload", !.list = l,
                            !.target = LatestOf(l)]
    /\ HttpFrame

ManualLatestDownloadSucceeds ==
    /\ http.pc = "awaitLatestDownload"
    /\ http' = [http EXCEPT !.pc = "awaitMinutes",
                            !.transcript = ContentOf(http.target.id)]
    /\ HttpFrame

ManualLatestDownloadFails ==
    /\ http.pc = "awaitLatestDownload"
    /\ http' = ProcessTranscriptFails(http,
                   MeetingBotError("Failed to download transcript",
                                   "DOWNLOAD_TRANSCRIPT_FAILED"))
    /\ HttpFrame

\* generateMinutes(transcript, meetingId || callId) resolved: res.json({success, minutes})
ManualMinutesReturned ==
    /\ http.pc = "awaitMinutes"
    /\ http' = [http EXCEPT !.pc = "done", !.status = 200,
                            !.minutesFor = IF http.meetingId # "" THEN http.meetingId
                                           ELSE http.callId]
    /\ HttpFrame

ManualMinutesFailed ==
    /\ http.pc = "awaitMinutes"
    /\ http' = ProcessTranscriptFails(http,
                   OpenAIError(<<"Failed to generate minutes: ", "request failed">>))
    /\ HttpFrame

BodyUserIds == UserIds \cup {""}
BodyMeetingIds == MeetingIds \cup {""}

ProcessTranscriptNext ==
    \/ \E u \in BodyUserIds, m \in BodyMeetingIds : ProcessTranscriptRejected(u, m)
    \/ \E u \in BodyUserIds, m \in BodyMeetingIds, c \in CallIds :
           ProcessTranscriptByCall(u, m, c)
    \/ \E u \in BodyUserIds, m \in BodyMeetingIds : ProcessTranscriptByMeeting(u, m)
    \/ ByCallListFails
    \/ ByCallListEmpty
    \/ \E l \in TranscriptLists : ByCallListNonEmpty(l)
    \/ ByCallDownloadSucceeds
    \/ ByCallDownloadFailsWithContent
    \/ ByCallDownloadFailsNoContent
    \/ ManualLatestListFails
    \/ ManualLatestListEmpty
    \/ \E l \in TranscriptLists : ManualLatestListNonEmpty(l)
    \/ ManualLatestDownloadSucceeds
    \/ ManualLatestDownloadFails
    \/ ManualMinutesReturned
    \/ ManualMinutesFailed

(***************************************************************************)
(* VTTParser.parse, from the cues webvtt.parse decoded.  A cue text is a   *)
(* text of tokens; "<" and ">" open and close a tag.                       *)
(***************************************************************************)
MaxCues == 2      \* the longest cue sequence decoded

\* cue offsets, in seconds
Offsets == {0, 1, 2}

CueTexts ==
    {<<"Ana", ":", SP, "a">>, <<"Al", ":", "a">>, <<"a", SP, SP, "<", "a", ">", "a">>,
     <<SP, ":", "a">>}

Cues == [start : {0, 1}, end : Offsets, text : CueTexts]

CueSeqs == UNION {[1..k -> Cues] : k \in 0..MaxCues}

\* cues.map(cue => cue.text).join(' ')
RECURSIVE JoinTexts(_)
JoinTexts(cues) ==
    IF cues = <<>> THEN <<>>
    ELSE IF Len(cues) = 1 THEN cues[1].text
    ELSE cues[1].text \o <<SP>> \o JoinTexts(Tail(cues))

\* x.replace(/<[^>]*>/g, ''): from a "<" to the next ">", when there is one
RECURSIVE RemoveTags(_)
RemoveTags(x) ==
    IF x = <<>> THEN <<>>
    ELSE IF Head(x) = "<" /\ \E i \in 2..Len(x) : x[i] = ">"
    THEN LET close == CHOOSE i \in 2..Len(x) :
                        x[i] = ">" /\ \A j \in 2..(i - 1) : x[j] # ">"
         IN RemoveTags(SubSeq(x, close + 1, Len(x)))
    ELSE <<Head(x)>> \o RemoveTags(Tail(x))

\* x.replace(/\s+/g, ' ')
RECURSIVE CollapseSpaces(_)
CollapseSpaces(x) ==
    IF x = <<>> THEN <<>>
    ELSE IF IsSpace(Head(x))
    THEN <<SP>> \o CollapseSpaces(SubSeq(x, SkipSpace(x, 1), Len(x)))
    ELSE <<Head(x)>> \o CollapseSpaces(Tail(x))

FullTranscript(cues) == Trim(CollapseSpaces(RemoveTags(JoinTexts(cues))))

\* were the duration read from the first cue
DurationOfFirst(cues) == IF Len(cues) > 0 THEN cues[1].end ELSE 0

\* cues.length > 0 ? cues[cues.length - 1].end : 0
DurationOf(cues) == IF Len(cues) > 0 THEN cues[Len(cues)].end ELSE 0

\* cue.text.match(/^([^:]+):/), then match[1].trim(); <<>> stands for both
\* null and "", which filter(Boolean) drops alike
SpeakerOf(text) ==
    IF FirstColon(text) > 1 THEN Trim(SubSeq(text, 1, FirstColon(text) - 1)) ELSE <<>>

\* were the labels not passed through a Set
RECURSIVE SpeakersOfKeepsAll(_, _)
SpeakersOfKeepsAll(cues, speakers) ==
    IF cues = <<>> THEN speakers
    ELSE LET label == SpeakerOf(Head(cues).text)
         IN SpeakersOfKeepsAll(Tail(cues),
                IF label # <<>> THEN Append(speakers, label) ELSE speakers)

\* Array.from(new Set(...)): each label once, in the order of first occurrence
RECURSIVE SpeakersOf(_, _)
SpeakersOf(cues, speakers) ==
    IF cues = <<>> THEN speakers
    ELSE LET label == SpeakerOf(Head(cues).text)
             keep == label # <<>> /\ ~(\E i \in DOMAIN speakers : speakers[i] = label)
         IN SpeakersOf(Tail(cues), IF keep THEN Append(speakers, label) ELSE speakers)

VTTParse(cues) ==
    [cues |-> cues,
     fullTranscript |-> FullTranscript(cues),
     duration |-> DurationOf(cues),
     speakers |-> SpeakersOf(cues, <<>>)]

(***************************************************************************)
(* POST /api/generate-summary: upload.single('transcript'), then           *)
(* handleGenerateSummary.  An error of the upload middleware goes to       *)
(* next(err), past the handler, to the global error handler.               *)
(***************************************************************************)
fileSizeLimit == 50 * 1024 * 1024

FileSizes == {1024, 60 * 1024 * 1024}

Files ==
    [present : {TRUE}, ext : {".vtt", ".txt", ".pdf"}, mimeOk : BOOLEAN, size : FileSizes]

\* req.file.buffer.toString('utf-8') of a file that is not .vtt
FileContents == {<<>>, <<SP, NL>>, <<"Ana", ":", SP, "a">>}

\* fileFilter: hasValidMime || hasValidExtension
FilterAccepts(file) == file.mimeOk \/ file.ext \in {".txt", ".vtt"}

\* the global error handler: 500 'Internal Server Error'
GlobalErrorHandler(h) ==
    [h EXCEPT !.pc = "done", !.status = 500, !.error = "Internal Server Error"]

\* the catch of handleGenerateSummary
GenerateSummaryFails(h, e) ==
    IF e.code = "LIMIT_FILE_SIZE"
    THEN [h EXCEPT !.pc = "done", !.status = 413, !.error = "File too large",
                   !.details = <<"The file exceeds the maximum allowed size of 50MB">>]
    ELSE [h EXCEPT !.pc = "done", !.status = 500,
                   !.error = "Failed to generate summary",
                   !.details = e.message, !.code = e.code]

\* no file part in the request: !req.file, 400
UploadWithoutFile ==
    /\ http.pc = "idle"
    /\ http' = HttpRejects([http EXCEPT !.op = "handleGenerateSummary"],
                           400, "No file uploaded. Please upload a text file.")
    /\ HttpFrame

\* cb(new Error('Only .txt and .vtt files are allowed'))
UploadFiltered ==
    /\ http.pc = "idle"
    /\ \E file \in Files :
          /\ ~FilterAccepts(file)
          /\ http' = GlobalErrorHandler([http EXCEPT !.op = "handleGenerateSummary",
                                                     !.file = file])
    /\ HttpFrame

\* the file passes limits.fileSize: the middleware fails with LIMIT_FILE_SIZE
UploadTooLarge ==
    /\ http.pc = "idle"
    /\ \E file \in Files :
          /\ FilterAccepts(file)
          /\ file.size > fileSizeLimit
          /\ http' = GlobalErrorHandler([http EXCEPT !.op = "handleGenerateSummary",
                                                     !.file = file])
    /\ HttpFrame

\* !transcript || transcript.trim().length === 0: 400; otherwise
\* generateSummary(transcript) is called and awaited
WithTranscript(h, transcript) ==
    IF Trim(transcript) = <<>>
    THEN HttpRejects([h EXCEPT !.transcript = transcript], 400,
                     "Uploaded file is empty or has no valid transcript content.")
    ELSE [h EXCEPT !.pc = "awaitSummary", !.transcript = transcript,
                   !.generations = @ + 1]

\* a file that is not .vtt: the transcript is the content
UploadText ==
    /\ http.pc = "idle"
    /\ \E file \in Files, content \in FileContents :
          /\ FilterAccepts(file) /\ file.size <= fileSizeLimit
          /\ file.ext # ".vtt"
          /\ http' = WithTranscript([http EXCEPT !.op = "handleGenerateSummary",
                                                 !.file = file], content)
    /\ HttpFrame

\* a .vtt file that webvtt.parse decodes into cues
UploadVtt ==
    /\ http.pc = "idle"
    /\ \E file \in Files, cues \in CueSeqs :
          /\ FilterAccepts(file) /\ file.size <= fileSizeLimit
          /\ file.ext = ".vtt"
          /\ http' = WithTranscript([http EXCEPT !.op = "handleGenerateSummary",
                                                 !.file = file,
                                                 !.parsed = VTTParse(cues)],
                                    VTTParse(cues).fullTranscript)
    /\ HttpFrame

\* a .vtt file that webvtt.parse rejects: new Error('Failed to parse VTT: ...')
UploadVttMalformed ==
    /\ http.pc = "idle"
    /\ \E file \in Files :
          /\ FilterAccepts(file) /\ file.size <= fileSizeLimit
          /\ file.ext = ".vtt"
          /\ http' = GenerateSummaryFails(
                         [http EXCEPT !.op = "handleGenerateSummary", !.file = file],
                         [NoError EXCEPT !.name = "Error",
                                         !.message = <<"Failed to parse VTT: ", "malformed">>])
    /\ HttpFrame

\* what the first choice may hold as message?.content
SummaryContents == {Undefined, JsNull, JsStr(<<>>), JsStr(<<"a">>)}

\* the catch of generateSummary
SummaryError(message) == OpenAIError(<<"Failed to generate summary: ", message>>)

\* response.choices[0].message?.content || '', a first choice being there
SummaryOf(content) == OrElse(content, JsStr(<<>>))

\* generateSummary returns; res.json({success: true, summary, metadata})
SummaryReturned ==
    /\ http.pc = "awaitSummary"
    /\ \E content \in SummaryContents :
          http' = [http EXCEPT !.pc = "done", !.status = 200,
                               !.completion = [answered |-> TRUE, choices |-> 1,
                                               content |-> content],
                               !.summary = SummaryOf(content)]
    /\ HttpFrame

\* the collaborator answers with no choices: choices[0] is undefined, reading
\* its message throws a TypeError inside the try of generateSummary
SummaryNoChoices ==
    /\ http.pc = "awaitSummary"
    /\ http' = GenerateSummaryFails(
                   [http EXCEPT !.completion = [answered |-> TRUE, choices |-> 0,
                                                content |-> Undefined],
                                !.thrown = SummaryError("Cannot read properties of undefined")],
                   SummaryError("Cannot read properties of undefined"))
    /\ HttpFrame

\* the completion request rejects
SummaryFailed ==
    /\ http.pc = "awaitSummary"
    /\ http' = GenerateSummaryFails([http EXCEPT !.thrown = SummaryError("request failed")],
                                    SummaryError("request failed"))
    /\ HttpFrame

UploadNext ==
    \/ UploadWithoutFile
    \/ UploadFiltered
    \/ UploadTooLarge
    \/ UploadText
    \/ UploadVtt
    \/ UploadVttMalformed
    \/ SummaryReturned
    \/ SummaryNoChoices
    \/ SummaryFailed

(***************************************************************************)
(* VTTParser.formatWithTimestamps and formatTime.  A number is printed as  *)
(* its decimal digits, one token each.  Offsets are whole seconds, which   *)
(* Math.floor leaves as they are.                                          *)
(***************************************************************************)
DigitChars == <<"0", "1", "2", "3", "4", "5", "6", "7", "8", "9">>

\* n.toString(), n a natural number
RECURSIVE NumberToString(_)
NumberToString(n) ==
    IF n < 10 THEN <<DigitChars[n + 1]>>
    ELSE NumberToString(n \div 10) \o <<DigitChars[(n % 10) + 1]>>

\* x.padStart(2, '0')
PadStart2(x) ==
    IF Len(x) >= 2 THEN x
    ELSE IF Len(x) = 1 THEN <<"0">> \o x
    ELSE <<"0", "0">>

\* were the minutes taken from the whole offset
formatTimeWholeMinutes(seconds) ==
    LET hrs == seconds \div 3600
        mins == seconds \div 60
        secs == seconds % 60
    IN PadStart2(NumberToString(hrs)) \o <<":">> \o PadStart2(NumberToString(mins))
          \o <<":">> \o PadStart2(NumberToString(secs))

formatTime(seconds) ==
    LET hrs == seconds \div 3600
        mins == (seconds % 3600) \div 60
        secs == seconds % 60
    IN PadStart2(NumberToString(hrs)) \o <<":">> \o PadStart2(NumberToString(mins))
          \o <<":">> \o PadStart2(NumberToString(secs))

\* cues.map(cue => [timestamp] text).join('\n')
RECURSIVE formatWithTimestamps(_)
formatWithTimestamps(cues) ==
    IF cues = <<>> THEN <<>>
    ELSE LET line == <<"[">> \o formatTime(Head(cues).start) \o <<"]", SP>>
                        \o Head(cues).text
         IN IF Len(cues) = 1 THEN line
            ELSE line \o <<NL>> \o formatWithTimestamps(Tail(cues))

(***************************************************************************)
(* POST /api/format-transcript: upload.single('transcript'), then          *)
(* handleGetFormattedTranscript.                                           *)
(***************************************************************************)
\* cue offsets below 100 hours, around the carries of the three fields
StartOffsets ==
    (0 .. 130) \cup {599, 600, 3599, 3600, 3601, 3661, 35999, 36000, 86399, 86400,
                     359999}

LongOffsets == {0, 3661, 359999}

\* one cue starting anywhere, or several starting at a few offsets
FormatCueSeqs ==
    {<<c>> : c \in [start : StartOffsets, end : {0}, text : {<<"Ana", ":", SP, "a">>}]}
    \cup UNION {[1..k -> [start : LongOffsets, end : {0},
                          text : {<<"Ana", ":", SP, "a">>, <<"a">>}]] : k \in 0..MaxCues}

\* !req.file: 400
FormatWithoutFile ==
    /\ http.pc = "idle"
    /\ http' = HttpRejects([http EXCEPT !.op = "handleGetFormattedTranscript"],
                           400, "No VTT file uploaded")
    /\ HttpFrame

\* the upload middleware refuses the file: next(err), the global error handler
FormatUploadRefused ==
    /\ http.pc = "idle"
    /\ \E file \in Files :
          /\ ~FilterAccepts(file) \/ file.size > fileSizeLimit
          /\ http' = GlobalErrorHandler([http EXCEPT !.op = "handleGetFormattedTranscript",
                                                     !.file = file])
    /\ HttpFrame

\* !fileName.endsWith('.vtt'): 400
FormatNotVtt ==
    /\ http.pc = "idle"
    /\ \E file \in Files :
          /\ FilterAccepts(file) /\ file.size <= fileSizeLimit
          /\ file.ext # ".vtt"
          /\ http' = HttpRejects([http EXCEPT !.op = "handleGetFormattedTranscript",
                                              !.file = file],
                                 400, "Only .vtt files are supported for this endpoint")
    /\ HttpFrame

\* res.json({success: true, formattedTranscript, metadata})
FormatVtt ==
    /\ http.pc = "idle"
    /\ \E file \in Files, cues \in FormatCueSeqs :
          /\ FilterAccepts(file) /\ file.size <= fileSizeLimit
          /\ file.ext = ".vtt"
          /\ http' = [http EXCEPT !.op = "handleGetFormattedTranscript",
                                  !.file = file, !.pc = "done", !.status = 200,
                                  !.formatted = formatWithTimestamps(cues),
                                  !.parsed = VTTParse(cues)]
    /\ HttpFrame

\* webvtt.parse rejects the file: the catch answers 500
FormatVttMalformed ==
    /\ http.pc = "idle"
    /\ \E file \in Files :
          /\ FilterAccepts(file) /\ file.size <= fileSizeLimit
          /\ file.ext = ".vtt"
          /\ http' = [http EXCEPT !.op = "handleGetFormattedTranscript",
                                  !.file = file, !.pc = "done", !.status = 500,
                                  !.error = "Failed to format transcript",
                                  !.details = <<"Failed to parse VTT: ", "malformed">>]
    /\ HttpFrame

FormatNext ==
    \/ FormatWithoutFile
    \/ FormatUploadRefused
    \/ FormatNotVtt
    \/ FormatVtt
    \/ FormatVttMalformed

(***************************************************************************)
(* POST /api/join-meeting: handleJoinMeeting over CallService.joinMeeting. *)
(***************************************************************************)
\* new MeetingBotError(message, code, statusCode)
MeetingBotErrorOf(message, code, statusCode) ==
    [name |-> "MeetingBotError", code |-> code, statusCode |-> statusCode,
     message |-> message]

\* x.includes(needle), the needle being one token
Includes(x, needle) == \E i \in DOMAIN x : x[i] = needle

\* decodeURIComponent(part) throws on a malformed escape
Decodable(part) == ~Includes(part, "%zz")

ThreadPart == <<"19%3ameeting_", "a", "%40", "thread.v2">>

JoinUrls ==
    {[given |-> TRUE, parses |-> FALSE, hostname |-> <<>>, pathParts |-> <<>>]}
    \cup
    [given : {TRUE}, parses : {TRUE},
     hostname : {<<"teams.microsoft.com">>, <<"a", ".", "teams.microsoft.com">>,
                 <<"teams.live.com">>},
     pathParts : {<<<<"l">>, <<"meetup-join">>, ThreadPart, <<"0">>>>,
                  <<<<"l">>, <<"meetup-join">>, <<"19%3a", "thread.skype">>>>,
                  <<<<"l">>, <<"meetup-join">>, <<"0">>>>,
                  <<<<"meetup-join">>, <<"%zz", "thread.v2">>>>,
                  <<<<"l">>, <<"channel">>, ThreadPart>>,
                  <<>>}]

\* isValidTeamsUrl: false when new URL throws
isValidTeamsUrl(url) ==
    /\ url.parses
    /\ Includes(url.hostname, "teams.microsoft.com")
    /\ \E i \in DOMAIN url.pathParts : Includes(url.pathParts[i], "meetup-join")

HasThread(part) == Includes(part, "thread.v2") \/ Includes(part, "thread.skype")

\* extractThreadIdFromJoinUrl: the first path part naming a thread, decoded;
\* <<>> stands for null, returned also when the URL or the decoding throws.
\* The fallback pattern matches a path part naming a thread and so finds
\* nothing the loop did not.
extractThreadIdFromJoinUrl(url) ==
    IF ~url.parses \/ ~(\E i \in DOMAIN url.pathParts : HasThread(url.pathParts[i]))
    THEN <<>>
    ELSE LET first == CHOOSE i \in DOMAIN url.pathParts :
                        /\ HasThread(url.pathParts[i])
                        /\ \A j \in 1..(i - 1) : ~HasThread(url.pathParts[j])
         IN IF Decodable(url.pathParts[first]) THEN url.pathParts[first] ELSE <<>>

\* the catch of joinMeeting: whatever was thrown inside the try is replaced
JoinMeetingCatch(error) ==
    MeetingBotErrorOf(<<"Failed to join meeting: ">> \o error.message,
                      "JOIN_MEETING_FAILED", 500)

\* the catch of handleJoinMeeting: 500, error and details, no code
JoinMeetingFails(h, e) ==
    [h EXCEPT !.pc = "done", !.status = 500, !.error = "Failed to join meeting",
              !.details = e.message, !.thrown = e]

JoinFrame ==
    UNCHANGED <<req, handoffs, runs, unhandled, delivered, deleted, streak, poll, gen>>

JoinRequest(url, userId, meetingId) ==
    [http EXCEPT !.op = "handleJoinMeeting", !.url = url, !.userId = userId,
                 !.meetingId = meetingId]

\* !meetingJoinUrl: 400
JoinWithoutUrl ==
    /\ http.pc = "idle"
    /\ \E u \in BodyUserIds, m \in BodyMeetingIds :
          http' = HttpRejects(JoinRequest(NoUrl, u, m), 400, "meetingJoinUrl is required")
    /\ UNCHANGED activeCalls
    /\ JoinFrame

\* !callService.isValidTeamsUrl(meetingJoinUrl): 400
JoinInvalidUrl ==
    /\ http.pc = "idle"
    /\ \E url \in JoinUrls, u \in BodyUserIds, m \in BodyMeetingIds :
          /\ ~isValidTeamsUrl(url)
          /\ http' = HttpRejects(JoinRequest(url, u, m), 400, "Invalid Teams meeting URL")
    /\ UNCHANGED activeCalls
    /\ JoinFrame

\* joinMeeting finds no thread id: INVALID_JOIN_URL is thrown inside its try
JoinWithoutThread ==
    /\ http.pc = "idle"
    /\ \E url \in JoinUrls, u \in BodyUserIds, m \in BodyMeetingIds :
          /\ isValidTeamsUrl(url)
          /\ extractThreadIdFromJoinUrl(url) = <<>>
          /\ http' = JoinMeetingFails(JoinRequest(url, u, m),
                         JoinMeetingCatch(MeetingBotErrorOf(
                             <<"Invalid meeting join URL - could not extract thread ID">>,
                             "INVALID_JOIN_URL", 400)))
    /\ UNCHANGED activeCalls
    /\ JoinFrame

\* graphService.post('/communications/calls', payload) is awaited
JoinPosted ==
    /\ http.pc = "idle"
    /\ \E url \in JoinUrls, u \in BodyUserIds, m \in BodyMeetingIds :
          /\ isValidTeamsUrl(url)
          /\ extractThreadIdFromJoinUrl(url) # <<>>
          /\ http' = [JoinRequest(url, u, m) EXCEPT !.pc = "awaitJoin"]
    /\ UNCHANGED activeCalls
    /\ JoinFrame

\* the call is created: the association is kept when userId && meetingId
JoinSucceeds ==
    /\ http.pc = "awaitJoin"
    /\ \E c \in CallIds :
          /\ activeCalls' =
                 IF http.userId # "" /\ http.meetingId # ""
                 THEN MapSet(activeCalls, c,
                             [meetingId |-> http.meetingId, userId |-> http.userId])
                 ELSE activeCalls
          /\ http' = [http EXCEPT !.pc = "done", !.status = 200, !.callId = c]
    /\ JoinFrame

\* the post rejects
JoinPostFails ==
    /\ http.pc = "awaitJoin"
    /\ http' = JoinMeetingFails(http,
                   JoinMeetingCatch(GraphApiError(<<"Graph API request failed: ",
                                                    "request failed">>)))
    /\ UNCHANGED activeCalls
    /\ JoinFrame

JoinNext ==
    \/ JoinWithoutUrl
    \/ JoinInvalidUrl
    \/ JoinWithoutThread
    \/ JoinPosted
    \/ JoinSucceeds
    \/ JoinPostFails

(***************************************************************************)
(* A call made through the manual join, and the webhook request that       *)
(* carries its events: the join requests that reach the post, and the      *)
(* first webhook request with the pipeline runs it starts.                 *)
(***************************************************************************)
FirstReq == {r \in Req : r = 1}

ManualCallNext ==
    \/ JoinPosted
    \/ JoinSucceeds
    \/ JoinPostFails
    \/ \E r \in FirstReq : ReceiveBatch(r)
    \/ \E r \in FirstReq : ProcessEstablishing(r)
    \/ \E r \in FirstReq : ProcessUnhandledState(r)
    \/ \E r \in FirstReq : ProcessMalformedEvent(r)
    \/ \E r \in FirstReq : EstablishedLookup(r)
    \/ \E r \in FirstReq : GetCallReturns(r)
    \/ \E r \in FirstReq : GetCallFails(r)
    \/ \E r \in FirstReq, c \in CallIds : ProcessTerminated(r, c)
    \/ \E r \in FirstReq : Respond(r)
    \/ \E i \in RunIds : WaitForTranscriptReturns(i)
    \/ \E i \in RunIds : WaitForTranscriptThrows(i)
    \/ \E i \in RunIds : GenerateMinutesReturns(i)
    \/ \E i \in RunIds : GenerateMinutesThrows(i)

Init ==
    /\ TrackerInit
    /\ poll = PollIdle
    /\ gen = GenIdle
    /\ http = HttpIdle

Next == TrackerNext

Spec == Init /\ [][Next]_vars

PollerSpec == Init /\ [][PollerNext]_vars

MinutesSpec == Init /\ [][MinutesNext]_vars

ProcessTranscriptSpec == Init /\ [][ProcessTranscriptNext]_vars

UploadSpec == Init /\ [][UploadNext]_vars

JoinSpec == Init /\ [][JoinNext]_vars

FormatSpec == Init /\ [][FormatNext]_vars

ManualCallSpec == Init /\ [][ManualCallNext]_vars

\* every query, download and delay of a started waitForTranscript returns
PollerAnswers ==
    \/ PollListEmpty
    \/ PollListFails
    \/ PollListNonEmpty
    \/ LatestListFails
    \/ LatestListEmpty
    \/ LatestListNonEmpty
    \/ DownloadSucceeds
    \/ DownloadFails
    \/ DelayElapses
    \/ PollExhausted

FairPollerSpec == PollerSpec /\ WF_vars(PollerAnswers)

(***************************************************************************)
(* Fairness.  Node runs a continuation that is ready, so the steps the     *)
(* handlers take by themselves are weakly fair.  A pipeline run has no     *)
(* caller waiting for it and the Call Info source is a collaborator:       *)
(* FairSpec lets a pending lookup answer and asks nothing of the pipeline  *)
(* runs; LookupMayHangSpec asks nothing of the lookup either.              *)
(***************************************************************************)
LookupAnswers(r) == GetCallReturns(r) \/ GetCallFails(r)

HandlersRun == \E r \in Req : LoopStep(r)

HandlersRunAndLookupsAnswer == \E r \in Req : LoopStep(r) \/ LookupAnswers(r)

LookupMayHangSpec == Spec /\ WF_vars(HandlersRun)

FairSpec == Spec /\ WF_vars(HandlersRunAndLookupsAnswer)

(***************************************************************************)
(* The claims about the webhook and the call-association tracker.          *)
(***************************************************************************)
HandoffsFor(c) == {i \in DOMAIN handoffs : handoffs[i][3] = c}

\* C1: a Terminated event for a call with an association removes the
\* association and hands off once, with the recorded pair; a Terminated event
\* that directly follows a Terminated event for the same call finds no
\* association and changes neither the map nor the handoffs.
C1_SecondTerminatedIsNoOp ==
    [][\A r \in Req, c \in CallIds :
         ProcessTerminated(r, c) =>
           /\ MapHas(activeCalls, c) =>
                /\ ~MapHas(activeCalls', c)
                /\ Len(handoffs') = Len(handoffs) + 1
                /\ handoffs'[Len(handoffs')] =
                     <<activeCalls[c].meetingId, activeCalls[c].userId, c>>
           /\ streak[c] >= 1 =>
                /\ ~MapHas(activeCalls, c)
                /\ UNCHANGED <<activeCalls, handoffs, runs>>]_vars

\* two Terminated events in a row for a call, and one handoff for it
C1_Witness ==
    \E c \in CallIds : streak[c] >= 2 /\ Cardinality(HandoffsFor(c)) = 1

\* C2: every handoff for a call carries the meeting and the user the call
\* belongs to, (m1, u1, c1) for c1.
C2_HandoffCarriesCallContext ==
    \A i \in DOMAIN handoffs :
        handoffs[i] = <<CallInfoOf(handoffs[i][3]).meetingId,
                        CallInfoOf(handoffs[i][3]).userId,
                        handoffs[i][3]>>

\* C3: an association that termination handling deleted is never recorded
\* again, and no call is handed off twice.
C3_DeletedNeverRecreated ==
    \A c \in CallIds :
        /\ c \in deleted => ~MapHas(activeCalls, c)
        /\ Cardinality(HandoffsFor(c)) <= 1

\* C8: a batch is answered with 202 and nothing else, and only after every
\* event of the batch was processed, whatever threw on the way.
C8_BatchAlwaysAccepted ==
    \A r \in Req :
        req[r].batch =>
            /\ req[r].resp \in {0, 202}
            /\ req[r].pc = "done" => req[r].resp = 202 /\ req[r].unread = 0

\* a batch answered 202 in which an event threw and a later event was processed
C8_Witness ==
    \E r \in Req :
        /\ req[r].pc = "done" /\ req[r].resp = 202
        /\ req[r].threw = 2

\* C9: a step of a pipeline run changes no request; no rejection of a run is
\* left unhandled; and every request that handed off a run ends answered 202,
\* whether or not the run ever moves.
C9_PipelineIsFireAndForget ==
    /\ [][(\E i \in RunIds : PipelineStep(i)) => UNCHANGED req]_vars
    /\ [](unhandled = 0)
    /\ <>[](\A r \in Req :
               req[r].started => req[r].pc = "done" /\ req[r].resp = 202)

\* a request answered while the run it handed off is still waiting for the
\* transcript
C9_Witness ==
    /\ Len(runs) = 1 /\ runs[1] = "waitForTranscript"
    /\ \E r \in Req : req[r].started /\ req[r].pc = "done" /\ req[r].resp = 202

\* C10: every request received is acknowledged in the end, although the
\* lookup of an Established event may never answer.
C10_AckedWhateverTheLookupDoes ==
    \A r \in Req : (req[r].pc # "idle") ~> (req[r].resp # 0)

(***************************************************************************)
(* The claims about the availability poller.                               *)
(***************************************************************************)
PollEnded == poll.pc \in {"returned", "failed"}

\* every attempt made so far found an empty list
OnlyEmptyLists == poll.sawEmpty /\ ~poll.sawError /\ poll.downloads = 0

\* C4: a call whose attempts, maxAttempts of them, all found an empty list ends
\* in TranscriptNotFoundError after at most maxAttempts list queries and at
\* most maxAttempts - 1 delays.
C4_AllEmptyFailsWithinBudget ==
    (PollEnded /\ OnlyEmptyLists) =>
        /\ poll.pc = "failed"
        /\ poll.error.name = "TranscriptNotFoundError"
        /\ poll.queries <= poll.maxAttempts
        /\ poll.delays <= poll.maxAttempts - 1

\* three empty lists in a row, then the failure
C4_Witness ==
    /\ poll.pc = "failed" /\ OnlyEmptyLists
    /\ poll.maxAttempts = 3 /\ poll.queries = 3 /\ poll.delays = 2

\* C5: a call that ends without a text ends in the TranscriptNotFoundError of
\* the meetingId it was given, code TRANSCRIPT_NOT_FOUND, whatever the attempts
\* ran into.
C5_ExhaustedIsNotFound ==
    /\ poll.pc = "failed" => poll.error = TranscriptNotFoundError(poll.meetingId)
    /\ poll.pc = "failed" => poll.error.code = "TRANSCRIPT_NOT_FOUND"
    /\ (PollEnded /\ poll.result = <<>>) => poll.pc = "failed"
    /\ poll.pc = "failed" => poll.attempt = poll.maxAttempts + 1

\* a failure after attempts that met an empty list, a failed query and a failed
\* download
C5_Witness ==
    /\ poll.pc = "failed" /\ poll.meetingId = "m2"
    /\ poll.sawEmpty /\ poll.sawError /\ poll.downloads >= 1

(***************************************************************************)
(* Claims about generateMinutes, under MinutesSpec.                        *)
(***************************************************************************)
GenEnded == gen.pc \in {"returned", "failed"}

IsNullish(v) == v.t \in {"null", "undefined"}

\* the collaborator returned non-empty content that JSON.parse rejects once
\* the content is trimmed and its fences are removed
UnparseableContent ==
    /\ gen.choices = 1
    /\ gen.content.t = "str"
    /\ gen.content.s # <<>>
    /\ ~JsonParse(StripFences(gen.content.s)).ok

EndsWith(x, suffix) ==
    Len(x) >= Len(suffix) /\ SubSeq(x, Len(x) - Len(suffix) + 1, Len(x)) = suffix

\* C6: when the collaborator returns non-empty content that is not valid JSON,
\* generateMinutes does not raise: it returns a document whose summary is
\* non-empty and embeds the raw response, and whose keyPoints, decisions
\* and actionItems are empty lists.
C6_NotJsonYieldsFallback ==
    (GenEnded /\ UnparseableContent) =>
        /\ gen.pc = "returned"
        /\ gen.error = NoError
        /\ gen.result.summary.t = "str"
        /\ gen.result.summary.s # <<>>
        /\ EndsWith(gen.result.summary.s, gen.content.s)
        /\ gen.result.keyPoints = JsArr(<<>>)
        /\ gen.result.decisions = JsArr(<<>>)
        /\ gen.result.actionItems = JsArr(<<>>)

\* prose in front of a JSON document was answered with the fallback document
C6_Witness ==
    /\ gen.pc = "returned"
    /\ gen.content = JsStr(<<"a", SP, "{", "}">>)
    /\ gen.result.title = JsStr(FallbackTitle)
    /\ gen.result.summary = JsStr(FallbackSummaryPrefix \o <<"a", SP, "{", "}">>)

\* C7: every document returned by generateMinutes, whatever the response
\* (fields absent, null, or present with a value of any JSON type), has a
\* non-null title, a non-null summary, and arrays for keyPoints, decisions,
\* actionItems and participants.
C7_DocumentFieldsAreTyped ==
    gen.pc = "returned" =>
        /\ ~IsNullish(gen.result.title)
        /\ ~IsNullish(gen.result.summary)
        /\ IsArray(gen.result.keyPoints)
        /\ IsArray(gen.result.decisions)
        /\ IsArray(gen.result.actionItems)
        /\ IsArray(gen.result.participants)

(***************************************************************************)
(* Claims about the tracker, continued (Spec).                             *)
(***************************************************************************)
\* C11: if getCall fails while handling an Established event for a call that
\* has no association yet, no association is recorded for that call, the
\* failure is logged and not propagated (the handler goes on with the batch
\* and nothing is left unhandled), and a later Terminated event for that call
\* triggers no handoff: as long as the call stays without an association no
\* step hands it off, and only a lookup that succeeds gives it one.
C11_FailedLookupLeavesUntracked ==
    /\ [][\A r \in Req :
            (GetCallFails(r) /\ ~MapHas(activeCalls, req[r].cur)) =>
                /\ ~MapHas(activeCalls', req[r].cur)
                /\ req'[r].pc = "loop"
                /\ unhandled' = unhandled
                /\ handoffs' = handoffs]_vars
    /\ [][\A c \in CallIds :
            ~MapHas(activeCalls, c) =>
                /\ HandoffsFor(c)' = HandoffsFor(c)
                /\ MapHas(activeCalls', c) =>
                       \E r \in Req : req[r].cur = c /\ GetCallReturns(r)]_vars

\* the lookup for c1 failed, then Terminated(c1) was processed, and there is
\* neither an association nor a handoff
C11_Witness ==
    /\ \E r \in Req : req[r].failed = "c1"
    /\ streak["c1"] >= 1
    /\ ~MapHas(activeCalls, "c1")
    /\ HandoffsFor("c1") = {}
    /\ unhandled = 0

(***************************************************************************)
(* Claims about the selection of the latest transcript.                    *)
(***************************************************************************)
DistinctTimestamps(l) ==
    \A i, j \in DOMAIN l : i # j => l[i].created # l[j].created

IsLatestIn(d, l) ==
    /\ \E i \in DOMAIN l : l[i] = d
    /\ \A i \in DOMAIN l : l[i].created <= d.created

\* C12: for any non-empty list of descriptors with pairwise distinct
\* creation timestamps, in any order, the selection made before the download
\* picks the descriptor with the greatest creation timestamp, both in
\* getLatestTranscript and in the by-call path of handleProcessTranscript.
C12_LatestIsGreatestTimestamp ==
    (http.list # <<>> /\ DistinctTimestamps(http.list)) =>
        IsLatestIn(http.target, http.list)

\* three descriptors T1 < T2 < T3 given with T3 in the middle, on each path
C12_Witness ==
    /\ Len(http.list) = 3
    /\ http.list[1].created = 1 /\ http.list[2].created = 3 /\ http.list[3].created = 2
    /\ http.target = http.list[2]
    /\ http.pc = "awaitByCallDownload"

(***************************************************************************)
(* Claims about waitForTranscript, continued (PollerSpec).                 *)
(***************************************************************************)
\* what one attempt that found nothing does to the call p, going to q
AttemptConsumed(p, q) ==
    /\ q.queries = p.queries + 1
    /\ q.error = NoError
    /\ q.result = p.result
    /\ q.downloads = p.downloads
    /\ IF p.attempt < p.maxAttempts
       THEN q.pc = "delay" /\ q.delays = p.delays + 1 /\ q.attempt = p.attempt
       ELSE q.pc = "loop" /\ q.delays = p.delays /\ q.attempt = p.attempt + 1

\* C13: in waitForTranscript a failed list query is treated exactly like an
\* empty list: it consumes one attempt, is followed by a delay when attempts
\* remain, is retried, and is never propagated to the caller.
C13_FailedQueryIsLikeEmptyList ==
    /\ [][PollListFails => AttemptConsumed(poll, poll')]_vars
    /\ [][PollListEmpty => AttemptConsumed(poll, poll')]_vars
    /\ [](poll.pc = "failed" => poll.error.code # "GET_TRANSCRIPTS_FAILED")

\* three attempts, each a failed query, two delays in between, then not found
C13_Witness ==
    /\ poll.pc = "failed"
    /\ poll.sawError /\ ~poll.sawEmpty /\ poll.downloads = 0
    /\ poll.maxAttempts = 3 /\ poll.queries = 3 /\ poll.delays = 2
    /\ poll.error = TranscriptNotFoundError(poll.meetingId)

(***************************************************************************)
(* Claims about generateMinutes, continued (MinutesSpec).                  *)
(***************************************************************************)
\* a JSON text between the fence markers, with and without the json tag
FencedForms(x) ==
    {<<FENCE, "json", NL>> \o x \o <<NL, FENCE>>,
     <<FENCE, NL>> \o x \o <<NL, FENCE>>}

IsJsonObjectText(x) == JsonParse(x).ok /\ JsonParse(x).val.t = "obj"

\* C14: a response that is a JSON document (an object) wrapped in markdown
\* fence markers, with or without the json tag, yields the same title,
\* summary, keyPoints, decisions, actionItems, nextSteps and participants as
\* the same document given without the fences.
C14_FencedParsesAsUnfenced ==
    \A x \in JsonTexts :
        (/\ gen.pc = "returned"
         /\ IsJsonObjectText(x)
         /\ gen.content.s \in FencedForms(x)) =>
            gen.result = ParseMinutesResponse(x, gen.meetingId, gen.transcript)

\* C15: generateMinutes fails with an OpenAIError and returns no document
\* when the collaborator returns no choices, or a first choice with empty
\* or missing content; the fallback document is not produced.
C15_NoContentIsGenerationError ==
    (GenEnded /\ (gen.choices = 0 \/ ~Truthy(gen.content))) =>
        /\ gen.pc = "failed"
        /\ gen.error.name = "OpenAIError"
        /\ gen.error.code = "OPENAI_ERROR"
        /\ gen.result = NoMinutes

\* a first choice whose content is the empty string
C15_Witness ==
    /\ gen.pc = "failed"
    /\ gen.choices = 1
    /\ gen.content = JsStr(<<>>)
    /\ gen.error = OpenAIError(<<"Failed to generate minutes: ",
                                 "Empty response from Azure OpenAI">>)

\* C16: the user prompt built for a transcript of length L holds the whole
\* transcript and no truncation marker when L <= 15000, and exactly the
\* first 15000 characters of the transcript followed by the marker when
\* L > 15000; the transcript part never exceeds 15000 characters.
C16_PromptTruncatesAtBudget ==
    gen.pc # "idle" =>
        LET L == TextLength(gen.transcript)
        IN /\ gen.prompt.transcript.of = gen.transcript
           /\ L <= 15000 => gen.prompt.transcript.chars = L /\ ~gen.prompt.truncated
           /\ L > 15000 => gen.prompt.transcript.chars = 15000 /\ gen.prompt.truncated
           /\ gen.prompt.transcript.chars <= 15000

\* a transcript one character over the budget
C16_Witness ==
    /\ gen.pc = "awaitCompletion"
    /\ gen.transcript = <<"block", "block", "block", "a">>
    /\ gen.prompt.truncated
    /\ gen.prompt.transcript.chars = 15000

\* the response was parsed and the document built from it
ParsedPath(content) ==
    JsonParse(StripFences(content)).ok /\ JsonParse(StripFences(content)).val.t # "null"

\* name is what a leading label of the line reads, trimmed: after the
\* bracketed stamp or from the head of the line come blanks, then the label,
\* without a colon in it, then a colon
IsLabelOf(name, line) ==
    \E start \in {1} \cup (IF StampLength(line) > 0 THEN {StampLength(line) + 1} ELSE {}) :
        \E i \in start..Len(line), j \in start..Len(line) :
            /\ i <= j /\ j < Len(line)
            /\ \A k \in start..(i - 1) : IsSpace(line[k])
            /\ \A k \in i..j : line[k] # ":"
            /\ line[j + 1] = ":"
            /\ Trim(SubSeq(line, i, j)) = name

\* the responses of a second run: documents with a title or with
\* participants of any type
OtherResponses ==
    {<<"{", KeyToken(k)>> \o v \o <<"}">> : k \in {"title", "participants"}, v \in FieldTexts}

TranscriptLines(transcript) ==
    LET lines == SplitLines(transcript, <<>>) IN {lines[i] : i \in DOMAIN lines}

\* C17: on the successful-parse path the participants of the document depend
\* only on the original transcript, not on the response: any other valid
\* response gives the same participants for the same transcript; each
\* participant is the leading label of some line of the transcript, longer
\* than 2 characters and not purely numeric, and none comes twice.
C17_ParticipantsFromTranscriptOnly ==
    (gen.pc = "returned" /\ ParsedPath(gen.content.s)) =>
        LET ps == gen.result.participants
        IN /\ \A x \in OtherResponses :
                  ParsedPath(x) =>
                      ParseMinutesResponse(x, gen.meetingId, gen.transcript).participants = ps
           /\ IsArray(ps)
           /\ \A i \in DOMAIN ps.items :
                  /\ ps.items[i].t = "str"
                  /\ TextLength(ps.items[i].s) > 2
                  /\ ~(\A k \in DOMAIN ps.items[i].s : IsDigit(ps.items[i].s[k]))
                  /\ \E line \in TranscriptLines(gen.transcript) :
                         IsLabelOf(ps.items[i].s, line)
           /\ \A i, j \in DOMAIN ps.items : i # j => ps.items[i] # ps.items[j]

\* the response names participants of its own; those of the document are
\* the two labels of the transcript, one of them past the prompt's budget
C17_Witness ==
    /\ gen.pc = "returned"
    /\ gen.content.s = <<"{", "participants:", "[">> \o Quoted(<<"a">>) \o <<"]", "}">>
    /\ gen.prompt.truncated
    /\ gen.result.participants = JsArr(<<JsStr(<<"Ana">>), JsStr(<<"Al", "a">>)>>)

(***************************************************************************)
(* Claims about the upload endpoints (UploadSpec).                         *)
(***************************************************************************)
\* C18: an upload larger than the 50 MB bound to the summary endpoint is
\* rejected with the oversized-upload error (413, 'File too large'), not a
\* generic internal error, and the generation collaborator is not invoked.
C18_OversizedUploadIs413 ==
    (/\ http.op = "handleGenerateSummary"
     /\ http.pc = "done"
     /\ http.file.present
     /\ FilterAccepts(http.file)
     /\ http.file.size > fileSizeLimit) =>
        /\ http.status = 413
        /\ http.error = "File too large"
        /\ http.generations = 0

\* C20: for every cue sequence the decoder produces, the duration of the
\* parsed transcript is the end offset of the last cue when there are cues
\* and 0 when there are none; with non-negative offsets it is never negative.
C20_DurationIsLastCueEnd ==
    (http.op = "handleGenerateSummary" /\ http.file.ext = ".vtt"
        /\ http.pc \in {"awaitSummary", "done"} /\ http.status \in {0, 200, 400}) =>
        LET cues == http.parsed.cues
        IN /\ cues # <<>> => http.parsed.duration = cues[Len(cues)].end
           /\ cues = <<>> => http.parsed.duration = 0
           /\ http.parsed.duration >= 0

\* two cues, the first ending after the second
C20_Witness ==
    /\ http.pc = "awaitSummary"
    /\ Len(http.parsed.cues) = 2
    /\ http.parsed.cues[1].end = 2 /\ http.parsed.cues[2].end = 1
    /\ http.parsed.duration = 1

(***************************************************************************)
(* Claims about the manual join (JoinSpec).                                *)
(***************************************************************************)
ThreadlessValidUrl(url) ==
    url.given /\ isValidTeamsUrl(url) /\ extractThreadIdFromJoinUrl(url) = <<>>

\* C19: when the join URL passes the host/path check but holds no thread
\* identifier, the error reaching the caller of the manual join carries the
\* code INVALID_JOIN_URL with its 400 status, not another code or status.
C19_ThreadlessUrlIsInvalidJoinUrl ==
    (/\ http.op = "handleJoinMeeting"
     /\ http.pc = "done"
     /\ ThreadlessValidUrl(http.url)) =>
        /\ http.thrown.code = "INVALID_JOIN_URL"
        /\ http.thrown.statusCode = 400
        /\ http.status = 400

(***************************************************************************)
(* Claims about the formatted transcript (FormatSpec).                     *)
(***************************************************************************)
DigitValue(tok) == CHOOSE d \in 0..9 : DigitChars[d + 1] = tok

IsDigitChar(tok) == \E d \in 0..9 : DigitChars[d + 1] = tok

TwoDigits(line, k) == 10 * DigitValue(line[k]) + DigitValue(line[k + 1])

\* the line starts with [HH:MM:SS] and the three fields add up to s
StampsOffset(line, s) ==
    /\ Len(line) >= 10
    /\ line[1] = "[" /\ line[4] = ":" /\ line[7] = ":" /\ line[10] = "]"
    /\ \A k \in {2, 3, 5, 6, 8, 9} : IsDigitChar(line[k])
    /\ TwoDigits(line, 5) < 60
    /\ TwoDigits(line, 8) < 60
    /\ TwoDigits(line, 2) * 3600 + TwoDigits(line, 5) * 60 + TwoDigits(line, 8) = s

\* C21: for every cue starting at a whole second s below 100 hours the line
\* emitted by formatWithTimestamps starts with [HH:MM:SS], two digits a
\* field, MM < 60, SS < 60 and HH*3600 + MM*60 + SS = s; 3661 gives
\* [01:01:01].
C21_TimestampIsHoursMinutesSeconds ==
    (http.op = "handleGetFormattedTranscript" /\ http.status = 200) =>
        LET cues == http.parsed.cues
            lines == IF cues = <<>> THEN <<>> ELSE SplitLines(http.formatted, <<>>)
        IN /\ Len(lines) = Len(cues)
           /\ \A i \in DOMAIN cues :
                 /\ StampsOffset(lines[i], cues[i].start)
                 /\ cues[i].start = 3661 =>
                        SubSeq(lines[i], 1, 10) =
                            <<"[", "0", "1", ":", "0", "1", ":", "0", "1", "]">>

C21_Witness ==
    /\ http.op = "handleGetFormattedTranscript"
    /\ http.status = 200
    /\ Len(http.parsed.cues) = 2
    /\ http.parsed.cues[1].start = 359999
    /\ http.parsed.cues[2].start = 3661
    /\ SubSeq(http.formatted, 1, 10) = <<"[", "9", "9", ":", "5", "9", ":", "5", "9", "]">>

(***************************************************************************)
(* Claims about the speakers of a parsed transcript (UploadSpec).          *)
(***************************************************************************)
RangeOf(x) == {x[i] : i \in DOMAIN x}

\* the cues in another order
Permuted(cues, f) == [i \in DOMAIN cues |-> cues[f[i]]]

OrdersOf(n) == {f \in [1..n -> 1..n] : \A i, j \in 1..n : f[i] = f[j] => i = j}

\* the labels that lead a cue text: what stands before the first colon,
\* without the spaces around it, when something is left
LabelsLeading(text) ==
    {Trim(SubSeq(text, 1, k - 1)) :
        k \in {n \in 2..Len(text) :
                 text[n] = ":" /\ \A j \in 1..(n - 1) : text[j] # ":"}}

LeadingLabels(cues) == UNION {LabelsLeading(cues[i].text) : i \in DOMAIN cues} \ {<<>>}

\* C22: the speakers of parse are the same set for every order of the cues,
\* hold each label once, and are exactly the labels that lead a cue text
\* before its first colon; a cue without such a label contributes nothing.
C22_SpeakersAreTheSetOfLabels ==
    (http.op = "handleGenerateSummary" /\ http.file.ext = ".vtt"
        /\ http.status \in {0, 200, 400} /\ http.pc \in {"awaitSummary", "done"}) =>
        LET cues == http.parsed.cues
            speakers == http.parsed.speakers
        IN /\ \A i, j \in DOMAIN speakers : speakers[i] = speakers[j] => i = j
           /\ RangeOf(speakers) = LeadingLabels(cues)
           /\ \A f \in OrdersOf(Len(cues)) :
                 RangeOf(VTTParse(Permuted(cues, f)).speakers) = RangeOf(speakers)

\* two cues of the same speaker
C22_Witness ==
    /\ http.pc = "awaitSummary"
    /\ Len(http.parsed.cues) = 2
    /\ http.parsed.cues[1].text = <<"Ana", ":", SP, "a">>
    /\ http.parsed.cues[2].text = <<"Ana", ":", SP, "a">>
    /\ http.parsed.cues[1].start # http.parsed.cues[2].start
    /\ http.parsed.speakers = <<<<"Ana">>>>

(***************************************************************************)
(* Claims about generateSummary (UploadSpec).                              *)
(***************************************************************************)
\* C23: whenever the collaborator answers without content, the first choice
\* holding an empty or missing content or there being no choice at all,
\* generateSummary returns the empty string and does not fail.
C23_NoContentIsEmptySummary ==
    (/\ http.op = "handleGenerateSummary"
     /\ http.pc = "done"
     /\ http.completion.answered
     /\ http.completion.choices = 0 \/ ~Truthy(http.completion.content)) =>
        /\ http.thrown = NoError
        /\ http.summary = JsStr(<<>>)
        /\ http.status = 200

(***************************************************************************)
(* Further claims about waitForTranscript (PollerSpec, FairPollerSpec).    *)
(***************************************************************************)
\* the loop iterations entered so far: attempt counts the one under way, and
\* at the loop test, as after the loop, the one that is not entered yet
Iterations ==
    IF poll.pc \in {"loop", "failed"} THEN poll.attempt - 1 ELSE poll.attempt

\* C24: provided every collaborator call and every delay returns, a started
\* waitForTranscript ends, for every maxAttempts >= 0 and whatever the store
\* answers, by returning a text or by failing, after at most maxAttempts
\* loop iterations.
C24_PollerTerminates ==
    /\ (poll.pc # "idle") ~> PollEnded
    /\ [](poll.pc # "idle" => Iterations <= poll.maxAttempts)
    /\ [](poll.pc = "returned" => poll.result # <<>>)

C24_Witness ==
    /\ poll.pc = "failed"
    /\ poll.maxAttempts = 3
    /\ poll.sawEmpty /\ poll.sawError /\ poll.downloads >= 1
    /\ poll.delays = 2

\* C27: each iteration of waitForTranscript issues exactly one list query,
\* so the list queries of a run never exceed maxAttempts.
C27_OneListQueryPerIteration ==
    poll.pc # "idle" => poll.queries <= poll.maxAttempts

\* the attempt is over without an outcome: the delay is waited when attempts
\* remain, and the loop goes on
AttemptEnds(p, q) ==
    /\ q.error = NoError
    /\ q.result = <<>>
    /\ q.maxAttempts = p.maxAttempts
    /\ IF p.attempt < p.maxAttempts
       THEN q.pc = "delay" /\ q.delays = p.delays + 1 /\ q.attempt = p.attempt
       ELSE q.pc = "loop" /\ q.delays = p.delays /\ q.attempt = p.attempt + 1

\* C28: the only failure of waitForTranscript is TranscriptNotFoundError; a
\* failure after a non-empty list (the download fails, the second query
\* fails or comes back empty) is not propagated: the attempt is consumed,
\* the delay is waited when attempts remain, and polling goes on.
C28_OnlyTranscriptNotFound ==
    /\ [][(LatestListFails \/ LatestListEmpty \/ DownloadFails) =>
              AttemptEnds(poll, poll')]_vars
    /\ [](poll.pc = "failed" => poll.error = TranscriptNotFoundError(poll.meetingId))

\* two attempts, each lost to a failed download
C28_Witness ==
    /\ poll.pc = "failed"
    /\ poll.maxAttempts = 2
    /\ poll.downloads = 2
    /\ poll.queries = 4
    /\ poll.delays = 1
    /\ ~poll.sawEmpty
    /\ poll.error = TranscriptNotFoundError(poll.meetingId)

\* C29: once the download of the latest descriptor succeeds the operation
\* returns its content at once, with no further query, download or delay,
\* and the text is the content of the descriptor created last.
C29_ReturnsLatestAtOnce ==
    /\ [][DownloadSucceeds =>
              /\ poll'.pc = "returned"
              /\ poll'.queries = poll.queries
              /\ poll'.delays = poll.delays
              /\ poll'.downloads = poll.downloads + 1
              /\ \E i \in DOMAIN poll.list :
                    /\ poll'.result = ContentOf(poll.list[i].id)
                    /\ \A j \in DOMAIN poll.list :
                          poll.list[j].created <= poll.list[i].created]_vars
    /\ [][poll.pc = "returned" => poll' = poll]_vars

\* the second attempt returns the newest of three, after a lost first one
C29_Witness ==
    /\ poll.pc = "returned"
    /\ poll.attempt = 2
    /\ Len(poll.list) = 3
    /\ poll.list[1].created = 1 /\ poll.list[2].created = 3 /\ poll.list[3].created = 2
    /\ poll.result = ContentOf(poll.list[2].id)
    /\ poll.downloads = 1

(***************************************************************************)
(* Further claims about the webhook and the tracker (Spec).                *)
(***************************************************************************)
\* C25: when Established(c) and then Terminated(c) are delivered in this
\* order in separate requests, the events take effect in this order: the
\* Terminated handler never runs while the Established handler of the
\* earlier request has not yet recorded the association.
C25_TerminatedRunsAfterEstablishedRecorded ==
    [][\A r1, r2 \in Req, c \in CallIds :
          ~(/\ r1 < r2
            /\ req[r1].pc = "awaitGetCall"
            /\ req[r1].cur = c
            /\ ProcessTerminated(r2, c))]_vars

\* the association of call c, <<>> when there is none
AssociationOf(m, c) == IF MapHas(m, c) THEN <<m[c]>> ELSE <<>>

\* C30: an event in a state other than Established or Terminated leaves the
\* association of every call as it is and hands nothing off; an Established
\* or a Terminated event for call c leaves the association of every other
\* call as it is.
C30_OtherStatesChangeNothing ==
    /\ [][\A r \in Req :
            (ProcessEstablishing(r) \/ ProcessUnhandledState(r)) =>
                /\ activeCalls' = activeCalls
                /\ handoffs' = handoffs
                /\ runs' = runs]_vars
    /\ [][\A r \in Req, c \in CallIds :
            (\/ ProcessTerminated(r, c)
             \/ (req[r].cur = c /\ (EstablishedLookup(r) \/ GetCallReturns(r)
                                       \/ GetCallFails(r)))) =>
                \A d \in CallIds \ {c} :
                    /\ AssociationOf(activeCalls', d) = AssociationOf(activeCalls, d)
                    /\ HandoffsFor(d)' = HandoffsFor(d)]_vars

\* the one event of the first request has been processed without a throw
\* (not malformed, no failed lookup), without an association recorded (no
\* answered lookup) and without a Terminated handler run (no streak): it was
\* an Establishing event or one in an unhandled state
C30_Witness ==
    /\ req[1].pc = "loop" /\ req[1].n = 1 /\ req[1].idx = 2 /\ req[1].threw = 0
    /\ delivered = 1
    /\ activeCalls = <<>>
    /\ \A c \in CallIds : streak[c] = 0
    /\ handoffs = <<>>

(***************************************************************************)
(* Claims about a call made through the manual join (ManualCallSpec).      *)
(***************************************************************************)
\* the join answered 200 for a request that supplied both identifiers, and
\* the call it returned has not been terminated since the program started
ManualCallTracked ==
    /\ http.op = "handleJoinMeeting"
    /\ http.status = 200
    /\ http.userId # "" /\ http.meetingId # ""
    /\ http.callId \notin deleted

SuppliedAssociation == [meetingId |-> http.meetingId, userId |-> http.userId]

\* C26: the association recorded by the manual join for the returned call
\* keeps the supplied meetingId and userId until termination, whatever
\* Establishing or Established events arrive in between, and the handoff at
\* Terminated carries the supplied pair.
C26_ManualAssociationKept ==
    /\ [](ManualCallTracked =>
            /\ MapHas(activeCalls, http.callId)
            /\ activeCalls[http.callId] = SuppliedAssociation)
    /\ [][\A r \in Req :
            (ManualCallTracked /\ ProcessTerminated(r, http.callId)) =>
                handoffs' = Append(handoffs, <<http.meetingId, http.userId,
                                              http.callId>>)]_vars

====
